---- MODULE Spec2Model ----
(***************************************************************************)
(* The numeric visitors of include/DataFrame/DataFrameMLVisitors.h as a    *)
(* state machine.  A driver owns one or two data ranges (column1, column2)  *)
(* and applies one visitor to them through the pre / invoke / post         *)
(* lifecycle.  value_type arithmetic is exact: an IEEE value is an         *)
(* extended rational <<n, d>> (d > 0 finite, <<1,0>> and <<-1,0>> the      *)
(* infinities, <<0,0>> NaN), so every equality below is an equality of     *)
(* real numbers and rounding is the only thing left out.                   *)
(***************************************************************************)
EXTENDS Integers, Sequences, FiniteSets, TLC

VARIABLES
    vis,        \* which visitor the driver applies (fixed at construction)
    op,         \* the operation that ran last
    column1,    \* the (first) data range handed to the visitor
    column2,    \* the second data range of a two-column visitor
    pos,        \* pairs (SLRegressionVisitor) or invocations (RectifyVisitor)
                \* since the last pre()
    slr,        \* SLRegressionVisitor
    km,         \* KMeansVisitor<K>
    fft,        \* FastFourierTransVisitor(inverse = false)
    ifft,       \* FastFourierTransVisitor(inverse = true)
    ent,        \* EntropyVisitor
    rect,       \* RectifyVisitor
    loss,       \* LossFunctionVisitor
    ap,         \* AffinityPropVisitor
    imp,        \* ImpurityVisitor
    exec,       \* the operator() in progress when it is followed step by
                \* step: its position and locals (Idle between calls)
    sigm,       \* SigmoidVisitor
    pll         \* PolicyLearningLossVisitor

vars == <<vis, op, column1, column2, pos,
          slr, km, fft, ifft, ent, rect, loss, ap, imp, exec, sigm, pll>>

-----------------------------------------------------------------------------
(* Bounds of the model.                                                    *)

SlrMaxLen == 3
SlrMaxX == 3
MaxPass == 2
RectMaxLen == 3
RectMaxVal == 1
LossMaxLen == 2
LossMaxVal == 1
EntMaxLen == 5
EntMaxVal == 2
EntMaxWin == 3
KmMaxLen == 2
KmMaxVal == 1
KmMaxIter == 3
FftMaxVal == 1
FftMaxPathLen == 8
ApMaxLen == 3
ApMaxVal == 3
ApMaxIter == 2
ImpMaxLen == 4
ImpMaxVal == 2
ImpMaxWin == 4

\* The width in bits of size_type in the model.
SizeTypeBits == 3

AppMaxLen == 2

\* The elements handed to operator() between two pre().
AppMaxTotal == 4

\* The same for AffinityPropVisitor: two ranges of ApMaxLen.
ApMaxTotal == 6

-----------------------------------------------------------------------------
(* value_type arithmetic.                                                  *)

Abs(n) == IF n < 0 THEN -n ELSE n

Sign(n) == IF n > 0 THEN 1 ELSE IF n < 0 THEN -1 ELSE 0

RECURSIVE Gcd(_, _)
Gcd(a, b) == IF b = 0 THEN a ELSE Gcd(b, a % b)

Rat(n, d) ==
    IF d = 0 THEN <<Sign(n), 0>>
    ELSE LET g == Gcd(Abs(n), Abs(d))
         IN  <<Sign(d) * (n \div g), Abs(d) \div g>>

get_nan == <<0, 0>>

Zero == <<0, 1>>

One == <<1, 1>>

FromInt(i) == <<i, 1>>

is_nan__(v) == v = get_nan

IsInf(v) == v[2] = 0 /\ v[1] # 0

IsFinite(v) == v[2] # 0

RNeg(a) == <<-a[1], a[2]>>

RAdd(a, b) ==
    IF is_nan__(a) \/ is_nan__(b) THEN get_nan
    ELSE IF IsInf(a) THEN (IF IsInf(b) /\ b # a THEN get_nan ELSE a)
    ELSE IF IsInf(b) THEN b
    ELSE Rat(a[1] * b[2] + b[1] * a[2], a[2] * b[2])

RSub(a, b) == RAdd(a, RNeg(b))

RMul(a, b) == Rat(a[1] * b[1], a[2] * b[2])

RRecip(a) ==
    IF a[1] = 0 THEN (IF a[2] = 0 THEN get_nan ELSE <<1, 0>>)
    ELSE IF a[1] > 0 THEN <<a[2], a[1]>>
    ELSE <<-a[2], -a[1]>>

RDiv(a, b) == RMul(a, RRecip(b))

\* The sign of a - b for finite a, b, by continued fractions (no products,
\* so no overflow of the model's integers).
RECURSIVE CmpFinite(_, _)
CmpFinite(a, b) ==
    LET qa == a[1] \div a[2]
        qb == b[1] \div b[2]
        ra == a[1] % a[2]
        rb == b[1] % b[2]
    IN  IF qa # qb THEN (IF qa < qb THEN -1 ELSE 1)
        ELSE IF ra = 0 \/ rb = 0 THEN Sign(ra - rb)
        ELSE CmpFinite(<<b[2], rb>>, <<a[2], ra>>)

\* a < b as IEEE decides it: false as soon as one side is NaN.
RLess(a, b) ==
    IF is_nan__(a) \/ is_nan__(b) THEN FALSE
    ELSE IF IsInf(a) THEN a[1] < 0 /\ b # a
    ELSE IF IsInf(b) THEN b[1] > 0
    ELSE CmpFinite(a, b) < 0

\* a == b as IEEE decides it.
REq(a, b) == ~is_nan__(a) /\ a = b

\* std::max(a, b): (a < b) ? b : a
StdMax(a, b) == IF RLess(a, b) THEN b ELSE a

\* std::min(a, b): (b < a) ? b : a
StdMin(a, b) == IF RLess(b, a) THEN b ELSE a

\* std::sqrt of a product of values: the real sgn * sqrt(sq), kept as the pair
\* <<sgn, sq>> with sq an extended rational.
Surd(sgn, q) ==
    IF is_nan__(q) \/ RLess(q, Zero) THEN <<0, get_nan>>
    ELSE IF q = Zero THEN <<0, Zero>>
    ELSE <<sgn, q>>

SurdOne == <<1, One>>

SurdMinusOne == <<-1, One>>

SurdFromRat(r) == Surd(Sign(r[1]), RMul(r, r))

SurdMul(a, b) == Surd(a[1] * b[1], RMul(a[2], b[2]))

SurdDiv(a, b) ==
    Surd(a[1] * (IF b[1] < 0 THEN -1 ELSE 1), RDiv(a[2], b[2]))

\* The sequences over S of length lo .. hi.
SeqsOf(S, lo, hi) == UNION {[1..n -> S] : n \in lo..hi}

-----------------------------------------------------------------------------
(* StatsVisitor (DataFrameStatsVisitors.h): the running mean and variance   *)
(* accumulator SLRegressionVisitor holds twice.                            *)

Stats_new == [n_ |-> 0, m1_ |-> Zero, m2_ |-> Zero]

Stats_call(s, skipnan, val) ==
    IF skipnan /\ is_nan__(val) THEN s
    ELSE LET n == s.n_ + 1
             delta == RSub(val, s.m1_)
             delta_n == RDiv(delta, FromInt(n))
             term1 == RMul(RMul(delta, delta_n), FromInt(n - 1))
         IN  [n_ |-> n, m1_ |-> RAdd(s.m1_, delta_n), m2_ |-> RAdd(s.m2_, term1)]

Stats_get_mean(s) == s.m1_

Stats_get_variance(s) == RDiv(s.m2_, FromInt(s.n_ - 1))

Stats_get_std(s) == Surd(1, Stats_get_variance(s))

-----------------------------------------------------------------------------
(* SLRegressionVisitor: one pass simple linear regression.                 *)

SLR_new(skipnan) ==
    [n_ |-> 0, s_xy_ |-> Zero, x_stats_ |-> Stats_new, y_stats_ |-> Stats_new,
     skip_nan_ |-> skipnan]

\* operator() with the co-moment term left unweighted: (mean_x - x) *
\* (mean_y - y) is added without the factor n / (n + 1).
SLR_call_unweighted(v, x, y) ==
    IF v.skip_nan_ /\ (is_nan__(x) \/ is_nan__(y)) THEN v
    ELSE [v EXCEPT
            !.s_xy_ = RAdd(@, RMul(RSub(Stats_get_mean(v.x_stats_), x),
                                   RSub(Stats_get_mean(v.y_stats_), y))),
            !.x_stats_ = Stats_call(@, v.skip_nan_, x),
            !.y_stats_ = Stats_call(@, v.skip_nan_, y),
            !.n_ = @ + 1]

\* operator() with a skipped pair still counted.
SLR_call_counting_skipped(v, x, y) ==
    IF v.skip_nan_ /\ (is_nan__(x) \/ is_nan__(y)) THEN [v EXCEPT !.n_ = @ + 1]
    ELSE [v EXCEPT
            !.s_xy_ = RAdd(@, RDiv(RMul(RMul(RSub(Stats_get_mean(v.x_stats_), x),
                                             RSub(Stats_get_mean(v.y_stats_), y)),
                                        FromInt(v.n_)),
                                   FromInt(v.n_ + 1))),
            !.x_stats_ = Stats_call(@, v.skip_nan_, x),
            !.y_stats_ = Stats_call(@, v.skip_nan_, y),
            !.n_ = @ + 1]

\* operator() (idx, x, y)
SLR_call(v, x, y) ==
    IF v.skip_nan_ /\ (is_nan__(x) \/ is_nan__(y)) THEN v
    ELSE [v EXCEPT
            !.s_xy_ = RAdd(@, RDiv(RMul(RMul(RSub(Stats_get_mean(v.x_stats_), x),
                                             RSub(Stats_get_mean(v.y_stats_), y)),
                                        FromInt(v.n_)),
                                   FromInt(v.n_ + 1))),
            !.x_stats_ = Stats_call(@, v.skip_nan_, x),
            !.y_stats_ = Stats_call(@, v.skip_nan_, y),
            !.n_ = @ + 1]

SLR_pre(v) ==
    [v EXCEPT !.n_ = 0, !.s_xy_ = Zero,
              !.x_stats_ = Stats_new, !.y_stats_ = Stats_new]

SLR_get_count(v) == v.n_

SLR_get_slope(v) ==
    LET s_xx == RMul(Stats_get_variance(v.x_stats_), FromInt(v.n_ - 1))
    IN  RDiv(v.s_xy_, s_xx)

SLR_get_intercept(v) ==
    RSub(Stats_get_mean(v.y_stats_),
         RMul(SLR_get_slope(v), Stats_get_mean(v.x_stats_)))

SLR_get_corr(v) ==
    LET t == SurdMul(Stats_get_std(v.x_stats_), Stats_get_std(v.y_stats_))
    IN  SurdDiv(SurdFromRat(v.s_xy_), SurdMul(SurdFromRat(FromInt(v.n_ - 1)), t))

-----------------------------------------------------------------------------
(* SigmoidVisitor.  std::exp, std::tanh, std::atan, std::erf, std::sinh,   *)
(* std::sqrt, std::pow and std::log have no rational value: the value of   *)
(* an expression built from them is kept as the term <<name, arguments>>,  *)
(* equal to another exactly when it names the same expression of the same  *)
(* arguments.                                                              *)

\* The value of the expression `name` at its arguments.
Term(name, args) == <<name, args>>

sigmoid_type ==
    {"logistic", "algebraic", "hyperbolic_tan", "arc_tan", "error_function",
     "gudermannian", "smoothstep"}

Sigm_new(st) == [result_ |-> <<>>, sigmoid_type_ |-> st]

\* What one pass of the loop of logistic_, algebraic_, ... smoothstep_
\* pushes for the element x.
Sigm_elem(st, x) ==
    IF st = "smoothstep"
    THEN IF RLess(x, Zero) \/ REq(x, Zero) THEN Zero
         ELSE IF RLess(One, x) \/ REq(x, One) THEN One
         ELSE RMul(RMul(x, x), RSub(FromInt(3), RMul(FromInt(2), x)))
    ELSE Term(st, <<x>>)

\* A pass that computes entry i from the element before element i.
Sigm_call_with_neighbour(v, col) ==
    [self |-> [v EXCEPT !.result_ =
                   @ \o [i \in 1..Len(col) |->
                           Sigm_elem(v.sigmoid_type_, col[IF i = 1 THEN 1 ELSE i - 1])]],
     column |-> col]

\* operator() (idx_begin, idx_end, column_begin, column_end): the visitor
\* afterwards, and the column as the call leaves it.
Sigm_call(v, col) ==
    [self |-> [v EXCEPT !.result_ =
                   @ \o [i \in 1..Len(col) |-> Sigm_elem(v.sigmoid_type_, col[i])]],
     column |-> col]

\* DEFINE_PRE_POST: pre() clears result_.
Sigm_pre(v) == [v EXCEPT !.result_ = <<>>]

-----------------------------------------------------------------------------
(* RectifyVisitor.  ReLU and param_ReLU have rational values; GeLU, SiLU,  *)
(* softplus, elu, mish and metallic_mean apply exp, log, tanh or sqrt per  *)
(* element and push terms.                                                 *)

rectify_type ==
    {"ReLU", "param_ReLU", "GeLU", "SiLU", "softplus", "elu", "mish",
     "metallic_mean"}

Rect_new(r_type, param) == [result_ |-> <<>>, param_ |-> param, rtype_ |-> r_type]

\* The element with std::min in place of std::max.
Rect_elem_min(v, x) ==
    IF v.rtype_ = "ReLU" THEN StdMin(Zero, x)
    ELSE StdMin(RMul(x, v.param_), x)

\* softp_(v, p): std::log(T(1) + std::exp(p * v)) / p
Rect_softp(x, p) == Term("softp_", <<x, p>>)

\* The value one element contributes under mode rtype_ (under SiLU, with
\* the logistic value of the element itself).
Rect_elem(v, x) ==
    IF v.rtype_ = "ReLU" THEN StdMax(Zero, x)
    ELSE IF v.rtype_ = "param_ReLU" THEN StdMax(RMul(x, v.param_), x)
    ELSE IF v.rtype_ = "GeLU"
    THEN Term("*", <<x, Term("standard_normal_dist_", <<x>>)>>)
    ELSE IF v.rtype_ = "SiLU" THEN Term("*", <<x, Sigm_elem("logistic", x)>>)
    ELSE IF v.rtype_ = "softplus" THEN Rect_softp(x, v.param_)
    ELSE IF v.rtype_ = "elu"
    THEN IF RLess(Zero, x) THEN x ELSE Term("elu", <<x, v.param_>>)
    ELSE IF v.rtype_ = "mish"
    THEN Term("*", <<x, Term("tanh", <<Rect_softp(x, v.param_)>>)>>)
    ELSE Term("metallic_mean", <<x>>)

\* The SiLU branch: a logistic SigmoidVisitor is run over the column, and
\* element i is multiplied with its result i.
Rect_silu(col) ==
    LET sigm_result == Sigm_call(Sigm_pre(Sigm_new("logistic")), col).self.result_
    IN  [i \in 1..Len(col) |-> Term("*", <<col[i], sigm_result[i]>>)]

\* operator() storing each rectified element back through column_begin.
Rect_call_in_place(v, col) ==
    [self |-> [v EXCEPT !.result_ =
                   @ \o [i \in 1..Len(col) |-> Rect_elem(v, col[i])]],
     column |-> [i \in 1..Len(col) |-> Rect_elem(v, col[i])]]

\* operator() (idx_begin, idx_end, column_begin, column_end): the visitor
\* afterwards, and the column as the call leaves it.
Rect_call(v, col) ==
    [self |-> [v EXCEPT !.result_ =
                   @ \o IF v.rtype_ = "SiLU" THEN Rect_silu(col)
                        ELSE [i \in 1..Len(col) |-> Rect_elem(v, col[i])]],
     column |-> col]

\* DEFINE_PRE_POST: pre() clears result_.
Rect_pre(v) == [v EXCEPT !.result_ = <<>>]

-----------------------------------------------------------------------------
(* LossFunctionVisitor.  The modes whose formula is rational are modelled  *)
(* (mean_abs_error, mean_sqr_error, categorical_hinge); the others apply   *)
(* log, cosh or sqrt.                                                      *)

loss_function_type == {"mean_abs_error", "mean_sqr_error", "categorical_hinge"}

Loss_new(lft) == [result_ |-> Zero, lft_ |-> lft]

\* std::fabs
Fabs(a) == IF is_nan__(a) THEN a ELSE <<Abs(a[1]), a[2]>>

\* std::reduce with std::plus, left to right from init.
RECURSIVE Reduce(_, _)
Reduce(s, init) ==
    IF s = <<>> THEN init ELSE Reduce(Tail(s), RAdd(init, Head(s)))

Loss_abs_term(a, m) == Fabs(RSub(a, m))

\* The squared term of a + m in place of a - m.
Loss_sqr_term_sum(a, m) == LET val == RAdd(a, m) IN RMul(val, val)

Loss_sqr_term(a, m) == LET val == RSub(a, m) IN RMul(val, val)

Loss_neg_term(a, m) == RMul(RSub(One, a), m)

Loss_pos_term(a, m) == RMul(a, m)

\* operator() (idx_begin, idx_end, actual_begin, actual_end, model_begin, model_end);
\* each std::transform_reduce is the std::plus reduction, from T(0), of the
\* mode's term over the pairs (actual[i], model[i]).
Loss_result(v, actual, model) ==
    LET col_s == FromInt(Len(actual))
        ix == 1..Len(actual)
    IN  IF v.lft_ = "mean_abs_error"
        THEN RDiv(Reduce([i \in ix |-> Loss_abs_term(actual[i], model[i])], Zero),
                  col_s)
        ELSE IF v.lft_ = "mean_sqr_error"
        THEN RDiv(Reduce([i \in ix |-> Loss_sqr_term(actual[i], model[i])], Zero),
                  col_s)
        ELSE IF v.lft_ = "categorical_hinge"
        THEN LET neg == Reduce([i \in ix |-> Loss_neg_term(actual[i], model[i])], Zero)
                 pos_ == Reduce([i \in ix |-> Loss_pos_term(actual[i], model[i])], Zero)
             IN  StdMax(RAdd(RSub(neg, pos_), One), Zero)
        ELSE v.result_

\* The visitor afterwards, and the two ranges as the call leaves them.
Loss_call(v, actual, model) ==
    [self |-> [v EXCEPT !.result_ = Loss_result(v, actual, model)],
     actual |-> actual, model |-> model]

Loss_pre(v) == [v EXCEPT !.result_ = Zero]

Loss_get_result(v) == v.result_

-----------------------------------------------------------------------------
(* EntropyVisitor.  A result is a real of the form                         *)
(*     SUM over primes p of c[p] * log(p) / log(log_base_)                 *)
(* with rational c[p], kept as the function c; the logarithms of distinct  *)
(* primes are linearly independent over the rationals, so two results are  *)
(* equal exactly when their functions are.                                 *)

\* The primes that divide a window sum or a window size.
Primes == {p \in 2..(EntMaxVal * EntMaxWin) :
              \A d \in 2..(p - 1) : p % d # 0}

LogNaN == [p \in Primes |-> get_nan]

LogZero == [p \in Primes |-> Zero]

LogIsNaN(x) == \E p \in Primes : is_nan__(x[p])

LogAdd(x, y) == [p \in Primes |-> RAdd(x[p], y[p])]

RECURSIVE PrimeExp(_, _)
PrimeExp(n, p) == IF n % p = 0 THEN 1 + PrimeExp(n \div p, p) ELSE 0

\* The term without its leading minus: val * std::log(val) / std::log(log_base_)
Ent_term_unsigned(val) ==
    IF ~IsFinite(val) \/ val[1] <= 0 THEN LogNaN
    ELSE [p \in Primes |->
             RMul(val, FromInt(PrimeExp(val[1], p) - PrimeExp(val[2], p)))]

\* -val * std::log(val) / std::log(log_base_)
Ent_term(val) ==
    IF ~IsFinite(val) \/ val[1] <= 0 THEN LogNaN
    ELSE [p \in Primes |->
             RMul(RNeg(val), FromInt(PrimeExp(val[1], p) - PrimeExp(val[2], p)))]

\* SumVisitor (skipnan = true) over the value_type elements s[from .. from + w - 1].
RECURSIVE SumRange(_, _, _)
SumRange(s, from, w) ==
    IF w = 0 THEN Zero
    ELSE IF is_nan__(s[from]) THEN SumRange(s, from + 1, w - 1)
    ELSE RAdd(s[from], SumRange(s, from + 1, w - 1))

\* The same over entropy terms.
RECURSIVE LogSumRange(_, _, _)
LogSumRange(s, from, w) ==
    IF w = 0 THEN LogZero
    ELSE IF LogIsNaN(s[from]) THEN LogSumRange(s, from + 1, w - 1)
    ELSE LogAdd(s[from], LogSumRange(s, from + 1, w - 1))

\* SimpleRollAdopter<SumVisitor>(roll_count): NaN for the first
\* roll_count - 1 positions, then the sum of each full window.
RollSum(s, w) ==
    LET n == Len(s)
        lead == IF w - 1 < n THEN w - 1 ELSE n
    IN  [i \in 1..lead |-> get_nan] \o
        [i \in 1..(IF n >= w THEN n - w + 1 ELSE 0) |-> SumRange(s, i, w)]

\* The same adopter over entropy terms.
LogRollSum(s, w) ==
    LET n == Len(s)
        lead == IF w - 1 < n THEN w - 1 ELSE n
    IN  [i \in 1..lead |-> LogNaN] \o
        [i \in 1..(IF n >= w THEN n - w + 1 ELSE 0) |-> LogSumRange(s, i, w)]

Ent_new(roll_count, log_base) ==
    [roll_count_ |-> roll_count, log_base_ |-> log_base, result_ |-> <<>>]

\* The vector operator() (idx_begin, idx_end, column_begin, column_end) swaps
\* into result_, for a column of at least roll_count_ - 1 elements (a shorter
\* one moves result.begin() past result.end()).
Ent_result(v, col) ==
    IF v.roll_count_ = 0 THEN v.result_
    ELSE LET w == v.roll_count_
             col_s == Len(col)
             sums == RollSum(col, w)
             terms == [i \in 1..col_s |-> Ent_term(RDiv(col[i], sums[i]))]
             second == LogRollSum(SubSeq(terms, w, col_s), w)
             result == [i \in 1..col_s |->
                           IF i <= w - 1 THEN LogNaN
                           ELSE IF i - (w - 1) <= Len(second)
                                THEN second[i - (w - 1)]
                                ELSE terms[i]]
         IN  result

\* operator() pushing the entropies behind what result_ already holds.
Ent_call_appending(v, col) ==
    [self |-> [v EXCEPT !.result_ = @ \o Ent_result(v, col)], column |-> col]

\* operator() (idx_begin, idx_end, column_begin, column_end): the visitor
\* afterwards (result_.swap(result)), and the column as the call leaves it.
Ent_call(v, col) ==
    [self |-> [v EXCEPT !.result_ = Ent_result(v, col)], column |-> col]

Ent_pre(v) == [v EXCEPT !.result_ = <<>>]

-----------------------------------------------------------------------------
(* KMeansVisitor<K>.  A cluster view holds pointers: <<"mean", i>> is the  *)
(* address of result_[i], <<"col", j>> the address of column element j.    *)

\* std::numeric_limits<double>::max(): above every finite value of the model.
DblMax == <<2147483647, 1>>

\* The convergence threshold 0.0000001 of calc_k_means_.
KM_epsilon == <<1, 10000000>>

\* The default distance_func: (x - y) * (x - y).
KM_dfunc(x, y) == RMul(RSub(x, y), RSub(x, y))

KM_new(K, num_of_iter, calc_clusters) ==
    [K |-> K, iter_num_ |-> num_of_iter, cc_ |-> calc_clusters,
     result_ |-> [i \in 1..K |-> Zero], clusters_ |-> [i \in 1..K |-> <<>>]]

\* The inner loop over clusters: the first cluster at minimal distance, or
\* `best` unchanged when no distance is below best_distance.
RECURSIVE KM_nearest(_, _, _, _, _)
KM_nearest(value, means, cluster, best_distance, best) ==
    IF cluster > Len(means) THEN best
    ELSE LET distance == KM_dfunc(value, means[cluster])
         IN  IF RLess(distance, best_distance)
             THEN KM_nearest(value, means, cluster + 1, distance, cluster)
             ELSE KM_nearest(value, means, cluster + 1, best_distance, best)

\* The seeding with a centroid whose draw is NaN set back to zero.
KM_seed_zeroing(means, col, draws) ==
    [k \in 1..Len(means) |->
        IF is_nan__(col[draws[k]]) THEN Zero ELSE col[draws[k]]]

\* "Pick centroids as random points from the col": draws[k] is the position
\* rd_gen(gen) returned for centroid k.
KM_seed(means, col, draws) ==
    [k \in 1..Len(means) |->
        IF is_nan__(col[draws[k]]) THEN means[k] ELSE col[draws[k]]]

\* "Find assignments": the cluster of every non-NaN point (0 for a NaN one).
KM_assign(means, col) ==
    [point \in 1..Len(col) |->
        IF is_nan__(col[point]) THEN 0
        ELSE KM_nearest(col[point], means, 1, DblMax, 1)]

\* new_means[cluster] and counts[cluster] after the assignment loop.
RECURSIVE KM_sum(_, _, _, _)
KM_sum(col, assignments, cluster, point) ==
    IF point > Len(col) THEN <<Zero, 0>>
    ELSE LET rest == KM_sum(col, assignments, cluster, point + 1)
         IN  IF assignments[point] = cluster
             THEN <<RAdd(col[point], rest[1]), rest[2] + 1>>
             ELSE rest

\* The recomputed mean with every point of the column counted, the NaN ones
\* included.
KM_new_mean_all_counted(col, assignments, cluster) ==
    RDiv(KM_sum(col, assignments, cluster, 1)[1],
         StdMax(One, FromInt(Len(col))))

\* "Divide sums by counts to get new centroids": the recomputed mean.
KM_new_mean(col, assignments, cluster) ==
    LET sc == KM_sum(col, assignments, cluster, 1)
        count == StdMax(One, FromInt(sc[2]))
    IN  RDiv(sc[1], count)

KM_moved(value, result) == RLess(KM_epsilon, KM_dfunc(value, result))

\* The pass with every centroid overwritten by its recomputed mean.
KM_step_all_overwritten(means, col) ==
    LET assignments == KM_assign(means, col)
        value == [c \in 1..Len(means) |-> KM_new_mean(col, assignments, c)]
    IN  [means |-> value,
         done |-> \A c \in 1..Len(means) : ~KM_moved(value[c], means[c])]

\* One pass of the for (iter ...) loop body: the centroids after it and done.
KM_step(means, col) ==
    LET assignments == KM_assign(means, col)
        value == [c \in 1..Len(means) |-> KM_new_mean(col, assignments, c)]
        moved == [c \in 1..Len(means) |-> KM_moved(value[c], means[c])]
    IN  [means |-> [c \in 1..Len(means) |-> IF moved[c] THEN value[c] ELSE means[c]],
         done |-> \A c \in 1..Len(means) : ~moved[c]]

\* for (size_type iter = 0; iter < iter_num_; ++iter) { ...; if (done) break; }
RECURSIVE KM_iterate(_, _, _, _)
KM_iterate(means, col, iter, iter_num) ==
    IF iter >= iter_num THEN [means |-> means, iters |-> iter]
    ELSE LET s == KM_step(means, col)
         IN  IF s.done THEN [means |-> s.means, iters |-> iter + 1]
             ELSE KM_iterate(s.means, col, iter + 1, iter_num)

calc_k_means_(v, col, draws) ==
    [v EXCEPT !.result_ =
        KM_iterate(KM_seed(v.result_, col, draws), col, 0, v.iter_num_).means]

\* The views without the leading address of the centroid.
calc_clusters_no_mean(v, col, junk) ==
    LET min_idx == [j \in 1..Len(col) |->
                       IF is_nan__(col[j]) THEN 0
                       ELSE KM_nearest(col[j], v.result_, 1, DblMax, junk)]
    IN  [v EXCEPT !.clusters_ =
            [i \in 1..v.K |->
                SelectSeq([j \in 1..Len(col) |-> <<"col", j>>],
                          LAMBDA r : min_idx[r[2]] = i)]]

\* The view of cluster i: the address of its centroid, then the address of
\* every non-NaN element whose nearest centroid it is.  min_idx is declared
\* without a value; junk is what it holds when no distance is below DBL_MAX.
calc_clusters_(v, col, junk) ==
    LET min_idx == [j \in 1..Len(col) |->
                       IF is_nan__(col[j]) THEN 0
                       ELSE KM_nearest(col[j], v.result_, 1, DblMax, junk)]
    IN  [v EXCEPT !.clusters_ =
            [i \in 1..v.K |->
                <<<<"mean", i>>>> \o
                SelectSeq([j \in 1..Len(col) |-> <<"col", j>>],
                          LAMBDA r : min_idx[r[2]] = i)]]

\* What the uninitialised min_idx of calc_clusters_ may hold when it is
\* read (no distance of the element is below DBL_MAX: the element or every
\* centroid is infinite): any index of clusters, or K + 1 for an index past
\* the array, whose push_back lands in none of the K views.
KM_junk(v) == 1..(v.K + 1)

\* operator() (idx_begin, idx_end, column_begin, column_end) on a non-empty
\* column: the visitor afterwards, and the column as the call leaves it.
KM_call(v, col, draws, junk) ==
    LET means == calc_k_means_(v, col, draws)
    IN  [self |-> IF v.cc_ THEN calc_clusters_(means, col, junk) ELSE means,
         column |-> col]

KM_pre(v) == [v EXCEPT !.clusters_ = [i \in 1..v.K |-> <<>>]]

KM_get_result(v) == v.result_

KM_get_clusters(v) == v.clusters_

-----------------------------------------------------------------------------
(* cplx_t arithmetic for FastFourierTransVisitor.  Every twiddle factor    *)
(* and chirp of a column of length 0 .. 4 is a 24th root of unity (radix-2 *)
(* of length 2, 4, 8 needs orders 2, 4, 8; Bluestein of length 3 needs     *)
(* order 6 and pads to 8), so a cplx_t is an element of the cyclotomic     *)
(* field Q(z), z = exp(2 pi i / 24): n[1] + n[2] z + ... + n[8] z^7 over   *)
(* the common denominator d, reduced by z^8 = z^4 - 1 and in lowest terms. *)
(* The form is unique, so equality of records is equality of complex       *)
(* numbers.                                                                *)

\* The element of a one-element set: The({e(x) : x \in {v}}) is e(v) with v
\* evaluated once.
The(S) == CHOOSE x \in S : TRUE

RECURSIVE GcdSeq(_, _, _)
GcdSeq(n, k, g) ==
    IF k > 8 \/ g = 1 THEN g ELSE GcdSeq(n, k + 1, Gcd(Abs(n[k]), g))

CNorm8(n, d) ==
    IF d = 1 THEN [n |-> n, d |-> 1]
    ELSE The({[n |-> <<n[1] \div g, n[2] \div g, n[3] \div g, n[4] \div g,
                       n[5] \div g, n[6] \div g, n[7] \div g, n[8] \div g>>,
               d |-> d \div g] : g \in {GcdSeq(n, 1, d)}})

CZero == [n |-> <<0, 0, 0, 0, 0, 0, 0, 0>>, d |-> 1]

\* a * x + b * y, coefficient by coefficient.
Lin(a, x, b, y) ==
    <<a[1] * x + b[1] * y, a[2] * x + b[2] * y, a[3] * x + b[3] * y,
      a[4] * x + b[4] * y, a[5] * x + b[5] * y, a[6] * x + b[6] * y,
      a[7] * x + b[7] * y, a[8] * x + b[8] * y>>

\* z * n, by z^8 = z^4 - 1.
MulZ(n) == <<-n[8], n[1], n[2], n[3], n[4] + n[8], n[5], n[6], n[7]>>

RECURSIVE RootN(_)
RootN(e) == IF e = 0 THEN <<1, 0, 0, 0, 0, 0, 0, 0>> ELSE MulZ(RootN(e - 1))

\* The coefficients of z^e, e in 0 .. 23.
RootTable == [e \in 0..23 |-> RootN(e)]

\* z^e
Root(e) == [n |-> RootTable[e % 24], d |-> 1]

\* std::complex<T>(re, im) for rational re = a / b and integer im.
CFromRat(v) == CNorm8(<<v[1], 0, 0, 0, 0, 0, 0, 0>>, v[2])

Cplx(re, im) == [n |-> <<re, 0, 0, 0, 0, 0, im, 0>>, d |-> 1]

CAdd(a, b) == CNorm8(Lin(a.n, b.d, b.n, a.d), a.d * b.d)

CSub(a, b) == CNorm8(Lin(a.n, b.d, b.n, -a.d), a.d * b.d)

\* acc + (a[k] z^(k-1) + ... + a[8] z^7) * b0, where b = z^(k-1) * b0.
RECURSIVE MulAcc(_, _, _, _)
MulAcc(a, b, k, acc) ==
    IF k > 8 THEN acc
    ELSE MulAcc(a, MulZ(b), k + 1,
                IF a[k] = 0 THEN acc ELSE Lin(acc, 1, b, a[k]))

\* The number of non-zero coefficients.
Nz(n) ==
    (IF n[1] = 0 THEN 0 ELSE 1) + (IF n[2] = 0 THEN 0 ELSE 1)
    + (IF n[3] = 0 THEN 0 ELSE 1) + (IF n[4] = 0 THEN 0 ELSE 1)
    + (IF n[5] = 0 THEN 0 ELSE 1) + (IF n[6] = 0 THEN 0 ELSE 1)
    + (IF n[7] = 0 THEN 0 ELSE 1) + (IF n[8] = 0 THEN 0 ELSE 1)

\* The product is summed over the terms of the sparser factor.
CMul(a, b) ==
    CNorm8(IF Nz(a.n) <= Nz(b.n) THEN MulAcc(a.n, b.n, 1, CZero.n)
           ELSE MulAcc(b.n, a.n, 1, CZero.n), a.d * b.d)

\* std::conj: z^(k-1) -> z^(24-(k-1)).
RECURSIVE ConjAcc(_, _, _)
ConjAcc(n, k, acc) ==
    IF k > 8 THEN acc
    ELSE ConjAcc(n, k + 1,
                 IF n[k] = 0 THEN acc
                 ELSE Lin(acc, 1, RootTable[(25 - k) % 24], n[k]))

CConj(a) == [n |-> ConjAcc(a.n, 1, CZero.n), d |-> a.d]

\* v / real_t(col_s)
CDivInt(a, m) == CNorm8(a.n, a.d * m)

\* std::polar(real_t(1), 2 pi * num / den)
Polar(num, den) == Root((num * 24) \div den)

\* std::norm
CNorm(a) == CMul(a, CConj(a))

\* std::sqrt(std::norm(v)): the non-negative real whose square is norm(v).
Magnitude(v) == [sqrt |-> CNorm(v)]

\* std::arg(v), kept unevaluated.
Arg(v) == [arg |-> v]

-----------------------------------------------------------------------------
(* FastFourierTransVisitor.  Vectors are 1-based here: column[i] of the    *)
(* source is column[i + 1].                                                *)

\* a & b on size_type
RECURSIVE BitAnd(_, _)
BitAnd(a, b) ==
    IF a = 0 \/ b = 0 THEN 0
    ELSE 2 * BitAnd(a \div 2, b \div 2) + (a % 2) * (b % 2)

\* The test col_s % 2 == 0 in place of the power-of-two test.
IsPow2_even(col_s) == col_s % 2 = 0

\* (col_s & (col_s - 1)) == 0; for col_s = 0 the unsigned col_s - 1 is all
\* ones and the conjunction is 0.
IsPow2(col_s) == col_s = 0 \/ BitAnd(col_s, col_s - 1) = 0

RECURSIVE reverse_bits_loop(_, _, _, _)
reverse_bits_loop(val, width, i, result) ==
    IF i < width
    THEN reverse_bits_loop(val \div 2, width, i + 1, 2 * result + (val % 2))
    ELSE result

\* The low `width` bits of val rotated left by one, in place of reversed.
reverse_bits_rotated(val, width) ==
    IF width = 0 THEN 0
    ELSE LET high == reverse_bits_loop(1, width, 0, 0)
         IN  2 * (val % high) + ((val \div high) % 2)

reverse_bits_(val, width) == reverse_bits_loop(val, width, 0, 0)

\* for (i = col_s; i > 1; i >>= 1) levels += 1
RECURSIVE fft_levels(_)
fft_levels(i) == IF i > 1 THEN 1 + fft_levels(i \div 2) ELSE 0

\* "Bit-reversed addressing permutation"
RECURSIVE fft_permute(_, _, _)
fft_permute(column, i, levels) ==
    IF i >= Len(column) THEN column
    ELSE LET rb == reverse_bits_(i, levels)
         IN  fft_permute(IF rb > i
                         THEN [column EXCEPT ![i + 1] = column[rb + 1],
                                             ![rb + 1] = column[i + 1]]
                         ELSE column,
                         i + 1, levels)

\* The innermost loop of the butterflies, from (j, k) on.
RECURSIVE fft_loop_j(_, _, _, _, _, _, _)
fft_loop_j(column, exp_table, i, j, k, half_size, table_step) ==
    IF j >= i + half_size THEN column
    ELSE fft_loop_j(The({[column EXCEPT
                              ![j + half_size + 1] = CSub(column[j + 1], temp),
                              ![j + 1] = CAdd(column[j + 1], temp)] :
                          temp \in {CMul(column[j + half_size + 1],
                                         exp_table[k + 1])}}),
                    exp_table, i, j + 1, k + table_step, half_size, table_step)

RECURSIVE fft_loop_i(_, _, _, _)
fft_loop_i(column, exp_table, i, s) ==
    IF i >= Len(column) THEN column
    ELSE fft_loop_i(fft_loop_j(column, exp_table, i, i, 0, s \div 2, Len(column) \div s),
                    exp_table, i + s, s)

RECURSIVE fft_loop_s(_, _, _)
fft_loop_s(column, exp_table, s) ==
    IF s > Len(column) THEN column
    ELSE fft_loop_s(fft_loop_i(column, exp_table, 0, s), exp_table, s * 2)

\* The bit-reversed permutation alone, the butterflies left out.
fft_radix2_permuted(column, reverse) ==
    fft_permute(column, 0, fft_levels(Len(column)))

fft_radix2_(column, reverse) ==
    LET col_s == Len(column)
        levels == fft_levels(col_s)
        half_col_s == col_s \div 2
    IN  The({fft_loop_s(fft_permute(column, 0, levels), exp_table, 2) :
             exp_table \in {[i \in 1..half_col_s |->
                 Polar(IF reverse THEN i - 1 ELSE -(i - 1), col_s)]}})

\* The loop stopped as soon as m exceeds col_s.
RECURSIVE bluestein_m_short(_, _)
bluestein_m_short(m, col_s) ==
    IF m <= col_s THEN bluestein_m_short(m * 2, col_s) ELSE m

\* while (m / 2 <= col_s) m *= 2
RECURSIVE bluestein_m(_, _)
bluestein_m(m, col_s) == IF m \div 2 <= col_s THEN bluestein_m(m * 2, col_s) ELSE m

RECURSIVE transform_(_, _)

\* xvec and yvec are transformed, multiplied element by element,
\* transformed back and scaled down by the length.
convolve_prod(fx, fy) == [i \in 1..Len(fx) |-> CMul(fx[i], fy[i])]

convolve_scale(back) == [i \in 1..Len(back) |-> CDivInt(back[i], Len(back))]

convolve_(xvec, yvec) ==
    The({convolve_scale(back) :
         back \in {transform_(The({convolve_prod(fx, fy) :
                                   fx \in {transform_(xvec, FALSE)},
                                   fy \in {transform_(yvec, FALSE)}}),
                              TRUE)}})

\* "Trignometric table"
bluestein_exp_table(col_s, reverse) ==
    [i \in 1..col_s |->
        Polar(IF reverse THEN ((i - 1) * (i - 1)) % (col_s * 2)
              ELSE -(((i - 1) * (i - 1)) % (col_s * 2)), col_s * 2)]

\* "Temporary vectors and preprocessing"
bluestein_xvec(column, exp_table, m) ==
    [i \in 1..m |->
        IF i <= Len(column) THEN CMul(column[i], exp_table[i]) ELSE CZero]

bluestein_yvec(col_s, exp_table, m) ==
    [i \in 1..m |->
        IF i = 1 THEN exp_table[1]
        ELSE IF i <= col_s THEN CConj(exp_table[i])
        ELSE IF m - (i - 1) >= 1 /\ m - (i - 1) < col_s
             THEN CConj(exp_table[m - (i - 1) + 1])
        ELSE CZero]

\* "Postprocessing"
bluestein_post(conv, exp_table, col_s) ==
    [i \in 1..col_s |-> CMul(exp_table[i], conv[i])]

fft_bluestein_(column, reverse) ==
    The({bluestein_post(
             convolve_(bluestein_xvec(column, exp_table, m),
                       bluestein_yvec(Len(column), exp_table, m)),
             exp_table, Len(column)) :
         exp_table \in {bluestein_exp_table(Len(column), reverse)},
         m \in {bluestein_m(1, Len(column))}})

transform_(column, reverse) ==
    LET col_s == Len(column)
    IN  IF col_s = 0 THEN column
        ELSE IF IsPow2(col_s) THEN fft_radix2_(column, reverse)
        ELSE fft_bluestein_(column, reverse)

\* std::conj of every element
conj_all(column) == [i \in 1..Len(column) |-> CConj(column[i])]

\* every element divided by real_t(col_s)
scale_all(column) == [i \in 1..Len(column) |-> CDivInt(column[i], Len(column))]

\* The inverse transform without the final division by the length.
itransform_unscaled(column) ==
    conj_all(IF IsPow2(Len(column))
             THEN fft_radix2_(conj_all(column), FALSE)
             ELSE fft_bluestein_(conj_all(column), FALSE))

itransform_(column) ==
    The({scale_all(conj_all(fwd)) :
         fwd \in {IF IsPow2(Len(column))
                  THEN fft_radix2_(conj_all(column), FALSE)
                  ELSE fft_bluestein_(conj_all(column), FALSE)}})

\* T is "real" (value_type is real_t) or "complex" (value_type is cplx_t).
FFT_new(T, inverse) ==
    [T |-> T, inverse_ |-> inverse, result_ |-> <<>>,
     magnitude_ |-> <<>>, angle_ |-> <<>>]

\* The local vector `result` operator() fills from the column.
FFT_copy_in(v, col) ==
    IF v.T = "complex" THEN col ELSE [i \in 1..Len(col) |-> CFromRat(col[i])]

\* operator() (idx_begin, idx_end, column_begin, column_end): the visitor
\* afterwards, and the column as the call leaves it.
FFT_call(v, col) ==
    LET result == FFT_copy_in(v, col)
    IN  [self |-> [v EXCEPT !.result_ = IF v.inverse_ THEN itransform_(result)
                                        ELSE transform_(result, FALSE)],
         column |-> col]

FFT_pre(v) == [v EXCEPT !.result_ = <<>>, !.magnitude_ = <<>>, !.angle_ = <<>>]

FFT_get_result(v) == v.result_

\* get_magnitude() recomputing on every request.
FFT_get_magnitude_recomputed(v) ==
    [v EXCEPT !.magnitude_ = [i \in 1..Len(v.result_) |-> Magnitude(v.result_[i])]]

\* get_magnitude(): the visitor afterwards; the value returned is its magnitude_.
FFT_get_magnitude(v) ==
    IF v.magnitude_ = <<>>
    THEN [v EXCEPT !.magnitude_ = [i \in 1..Len(v.result_) |-> Magnitude(v.result_[i])]]
    ELSE v

FFT_get_angle(v) ==
    IF v.angle_ = <<>>
    THEN [v EXCEPT !.angle_ = [i \in 1..Len(v.result_) |-> Arg(v.result_[i])]]
    ELSE v

-----------------------------------------------------------------------------
(* AffinityPropVisitor.  The similarities are kept in a packed upper       *)
(* triangle; avail and respon are csize x csize, row by row.  Vectors are  *)
(* 1-based here: simil[x] of the source is simil[x + 1].  Columns have at  *)
(* least two elements, so that every maximum and minimum taken from        *)
(* +-DBL_MAX meets a real similarity.                                      *)

AP_new(num_of_iter, damping_factor) ==
    [iter_num_ |-> num_of_iter, dfactor_ |-> damping_factor, result_ |-> <<>>]

\* The default distance_func: (x - y) * (x - y).
AP_dfunc(x, y) == RMul(RSub(x, y), RSub(x, y))

\* (i * csize) + j - ((i * (i + 1)) >> 1)
AP_simil_index(i, j, csize) == (i * csize) + j - ((i * (i + 1)) \div 2)

\* "Compute similarity between distinct data points i and j": the array and
\* min_dist after the loops from (i, j) on.
RECURSIVE AP_simil_pairs(_, _, _, _, _)
AP_simil_pairs(col, i, j, simil, min_dist) ==
    LET csize == Len(col)
    IN  IF i >= csize - 1 THEN [simil |-> simil, min_dist |-> min_dist]
        ELSE IF j >= csize THEN AP_simil_pairs(col, i + 1, i + 2, simil, min_dist)
        ELSE LET dist == RNeg(AP_dfunc(col[i + 1], col[j + 1]))
             IN  AP_simil_pairs(col, i, j + 1,
                     [simil EXCEPT ![AP_simil_index(i, j, csize) + 1] = dist],
                     IF RLess(dist, min_dist) THEN dist ELSE min_dist)

\* "Assign min to diagonals"
RECURSIVE AP_simil_diag(_, _, _, _)
AP_simil_diag(csize, i, simil, min_dist) ==
    IF i >= csize THEN simil
    ELSE AP_simil_diag(csize, i + 1,
             [simil EXCEPT ![AP_simil_index(i, i, csize) + 1] = min_dist],
             min_dist)

get_similarity_(col) ==
    LET csize == Len(col)
        zeros == [x \in 1..((csize * (csize + 1)) \div 2) |-> Zero]
        pairs == AP_simil_pairs(col, 0, 1, zeros, DblMax)
    IN  AP_simil_diag(csize, 0, pairs.simil, pairs.min_dist)

\* What the responsibility update reads for the pair (i, j):
\* simil[(i * csize) + j - ((i * (i + 1)) >> 1)]
AP_simil_read(simil, i, j, csize) == simil[AP_simil_index(i, j, csize) + 1]

\* The loop over jj of the responsibility update, from jj on.
RECURSIVE AP_max_diff(_, _, _, _, _, _, _)
AP_max_diff(simil, avail, csize, i, j, jj, max_diff) ==
    IF jj >= csize THEN max_diff
    ELSE IF jj = j THEN AP_max_diff(simil, avail, csize, i, j, jj + 1, max_diff)
    ELSE LET value == RAdd(AP_simil_read(simil, i, jj, csize),
                           avail[jj * csize + i + 1])
         IN  AP_max_diff(simil, avail, csize, i, j, jj + 1,
                         IF RLess(max_diff, value) THEN value ELSE max_diff)

\* simil[...] - max_diff: DBL_MAX - (-DBL_MAX), the one difference of the
\* update that leaves the range of double, is +infinity.
AP_diff(s, max_diff) ==
    IF s = DblMax /\ max_diff = RNeg(DblMax) THEN <<1, 0>>
    ELSE RSub(s, max_diff)

\* "Update responsibility": cell j * csize + i reads simil, avail and itself.
AP_respon(v, simil, csize, avail, respon) ==
    [c \in 1..(csize * csize) |->
        LET i == (c - 1) % csize
            j == (c - 1) \div csize
            max_diff == AP_max_diff(simil, avail, csize, i, j, 0, RNeg(DblMax))
        IN  RAdd(RMul(RSub(One, v.dfactor_),
                      AP_diff(AP_simil_read(simil, i, j, csize), max_diff)),
                 RMul(v.dfactor_, respon[c]))]

\* The sum of std::max(0.0, respon[s1 + ii]) over the ii from ii on that are
\* not in skip.
RECURSIVE AP_sum(_, _, _, _, _)
AP_sum(respon, csize, s1, ii, skip) ==
    IF ii >= csize THEN Zero
    ELSE IF ii \in skip THEN AP_sum(respon, csize, s1, ii + 1, skip)
    ELSE RAdd(StdMax(Zero, respon[s1 + ii + 1]),
              AP_sum(respon, csize, s1, ii + 1, skip))

\* "Update availability": the diagonal cells first, then cell j * csize + i
\* for i # j; each reads respon and itself.
AP_avail(v, csize, avail, respon) ==
    [c \in 1..(csize * csize) |->
        LET i == (c - 1) % csize
            j == (c - 1) \div csize
            s1 == j * csize
        IN  IF i = j
            THEN RAdd(RMul(RSub(One, v.dfactor_),
                           AP_sum(respon, csize, s1, 0, {i})),
                      RMul(v.dfactor_, avail[c]))
            ELSE RAdd(RMul(RSub(One, v.dfactor_),
                           StdMin(Zero, RAdd(respon[s1 + j + 1],
                                             AP_sum(respon, csize, s1, 0, {i, j})))),
                      RMul(v.dfactor_, avail[c]))]

\* for (size_type m = 0; m < iter_num_; ++m)
RECURSIVE AP_iterate(_, _, _, _, _, _)
AP_iterate(v, simil, csize, m, avail, respon) ==
    IF m >= v.iter_num_ THEN [avail |-> avail, respon |-> respon]
    ELSE LET r == AP_respon(v, simil, csize, avail, respon)
         IN  AP_iterate(v, simil, csize, m + 1, AP_avail(v, csize, avail, r), r)

get_avail_and_respon(v, simil, csize) ==
    AP_iterate(v, simil, csize, 0,
               [c \in 1..(csize * csize) |-> Zero],
               [c \in 1..(csize * csize) |-> Zero])

\* The addresses operator() pushes: every element i with
\* respon[i * col_s + i] + avail[i * col_s + i] > 0.0
AP_centers(col_s, ar) ==
    SelectSeq([i \in 1..col_s |-> <<"col", i>>],
              LAMBDA r : RLess(Zero, RAdd(ar.respon[(r[2] - 1) * col_s + r[2]],
                                          ar.avail[(r[2] - 1) * col_s + r[2]])))

\* operator() (idx_begin, idx_end, column_begin, column_end): the visitor
\* afterwards, and the column as the call leaves it.
AP_call(v, col) ==
    LET col_s == Len(col)
        simil == get_similarity_(col)
        ar == get_avail_and_respon(v, simil, col_s)
    IN  [self |-> [v EXCEPT !.result_ = @ \o AP_centers(col_s, ar)],
         column |-> col]

\* DEFINE_PRE_POST: pre() clears result_.
AP_pre(v) == [v EXCEPT !.result_ = <<>>]

-----------------------------------------------------------------------------
(* ImpurityVisitor.  The frequency table is the sequence of its entries   *)
(* <<key, count>>; two keys are one when operator== says so, so every NaN  *)
(* is a key of its own.  The order of the entries has no part in a sum.    *)
(* An information entropy, like an entropy of EntropyVisitor, is a sum of  *)
(* c[p] * log2(p) over primes, kept as c.                                  *)

impurity_type == {"gini_index", "info_entropy"}

Imp_new(roll_count, it) ==
    [result_ |-> <<>>, roll_count_ |-> roll_count, imt_ |-> it]

\* table.find(key): the entry whose key equals key, 0 for end().
Imp_find(table, key) ==
    IF \E x \in 1..Len(table) : REq(table[x][1], key)
    THEN CHOOSE x \in 1..Len(table) :
            /\ REq(table[x][1], key)
            /\ \A y \in 1..(x - 1) : ~REq(table[y][1], key)
    ELSE 0

\* table.insert(std::pair(key, 0)) followed by ->second += 1.0
Imp_table_add(table, key) ==
    LET ret == Imp_find(table, key)
    IN  IF ret = 0 THEN Append(table, <<key, 1>>)
        ELSE [table EXCEPT ![ret][2] = @ + 1]

\* ->second -= 1.0 and the erase of a count of 0, at the entry find_ret.
Imp_table_decrement(table, find_ret) ==
    IF table[find_ret][2] = 1
    THEN SubSeq(table, 1, find_ret - 1) \o SubSeq(table, find_ret + 1, Len(table))
    ELSE [table EXCEPT ![find_ret][2] = @ - 1]

\* table.find(key), ->second -= 1.0 and the erase of a count of 0, for a
\* key the table holds.
Imp_table_remove(table, key) == Imp_table_decrement(table, Imp_find(table, key))

\* The table of the first roll_count_ elements.
RECURSIVE Imp_table_init(_, _, _, _)
Imp_table_init(col, i, roll_count, table) ==
    IF i >= roll_count THEN table
    ELSE Imp_table_init(col, i + 1, roll_count, Imp_table_add(table, col[i + 1]))

\* sum += prob * prob over the entries from x on.
RECURSIVE Imp_gini_sum(_, _, _)
Imp_gini_sum(table, x, roll_count) ==
    IF x > Len(table) THEN Zero
    ELSE LET prob == Rat(table[x][2], roll_count)
         IN  RAdd(RMul(prob, prob), Imp_gini_sum(table, x + 1, roll_count))

\* sum += prob * std::log2(prob) over the entries from x on.
RECURSIVE Imp_entropy_sum(_, _, _)
Imp_entropy_sum(table, x, roll_count) ==
    IF x > Len(table) THEN LogZero
    ELSE LET prob == Rat(table[x][2], roll_count)
         IN  LogAdd([p \in Primes |->
                        RMul(prob, FromInt(PrimeExp(prob[1], p) - PrimeExp(prob[2], p)))],
                    Imp_entropy_sum(table, x + 1, roll_count))

\* The value pushed for the window the table holds.
Imp_value(v, table) ==
    IF v.imt_ = "gini_index"
    THEN RSub(One, Imp_gini_sum(table, 1, v.roll_count_))
    ELSE LET sum == Imp_entropy_sum(table, 1, v.roll_count_)
         IN  [p \in Primes |-> RNeg(sum[p])]

\* for (size_type i = 1; i < col_s; ++i): the result vector from i on.
RECURSIVE Imp_loop(_, _, _, _, _)
Imp_loop(v, col, i, table, result) ==
    IF i >= Len(col) THEN result
    ELSE LET pushed == Append(result, Imp_value(v, table))
             roll_end == i + v.roll_count_
         IN  IF roll_end > Len(col) THEN pushed
             ELSE Imp_loop(v, col, i + 1,
                           Imp_table_add(Imp_table_remove(table, col[i]),
                                         col[roll_end]),
                           pushed)

\* operator() (idx_begin, idx_end, column_begin, column_end): the visitor
\* afterwards, and the column as the call leaves it.
Imp_call(v, col) ==
    IF v.roll_count_ = 0 \/ v.roll_count_ > Len(col)
    THEN [self |-> v, column |-> col]
    ELSE [self |-> [v EXCEPT !.result_ =
                       Imp_loop(v, col, 1,
                                Imp_table_init(col, 0, v.roll_count_, <<>>),
                                <<>>)],
          column |-> col]

\* DEFINE_PRE_POST: pre() clears result_.
Imp_pre(v) == [v EXCEPT !.result_ = <<>>]

-----------------------------------------------------------------------------
(* PolicyLearningLossVisitor.  -std::log(ap) * r is, like an entropy, a   *)
(* sum of c[p] * log(p) over primes, kept as c.                            *)

PLL_new == [result_ |-> <<>>]

\* "Negative Log Likelihood": -std::log(ap) * r
PLL_term(prob, r) ==
    IF ~IsFinite(prob) \/ prob[1] <= 0 \/ ~IsFinite(r) THEN LogNaN
    ELSE [p \in Primes |->
             RMul(RNeg(FromInt(PrimeExp(prob[1], p) - PrimeExp(prob[2], p))), r)]

\* operator() (idx_begin, idx_end, action_prob_begin, action_prob_end,
\* reward_begin, reward_end) on two ranges of one length.
PLL_call(v, action_prob, reward) ==
    [self |-> [v EXCEPT !.result_ =
                   @ \o [i \in 1..Len(action_prob) |->
                           PLL_term(action_prob[i], reward[i])]],
     action_prob |-> action_prob,
     reward |-> reward]

\* DEFINE_PRE_POST: pre() clears result_.
PLL_pre(v) == [v EXCEPT !.result_ = <<>>]

-----------------------------------------------------------------------------
(* The driver.  It owns the data ranges, constructs the visitors and calls *)
(* pre(), operator() and post(); vis names the visitor it drives.          *)

\* No operator() is being followed.
Idle == [pc |-> "idle"]

Fresh ==
    [slr |-> SLR_new(TRUE), km |-> KM_new(1, 0, FALSE),
     fft |-> FFT_new("real", FALSE), ifft |-> FFT_new("complex", TRUE),
     ent |-> Ent_new(0, FromInt(2)), rect |-> Rect_new("ReLU", One),
     loss |-> Loss_new("mean_sqr_error"),
     ap |-> AP_new(0, <<9, 10>>), imp |-> Imp_new(0, "gini_index"),
     sigm |-> Sigm_new("logistic"), pll |-> PLL_new]

\* ---- SLRegressionVisitor ----

SlrXVals == {FromInt(i) : i \in 1..SlrMaxX}

SlrSlopes == {-1, 0, 2}

SlrIntercepts == {0, 1}

\* The x range of the regression scenario x = [1,2,3,4], y = [2,4,6,8].
SlrScenarioX == <<FromInt(1), FromInt(2), FromInt(3), FromInt(4)>>

\* y = a * x + b, element by element.
Line(xs, a, b) ==
    [i \in 1..Len(xs) |-> RAdd(RMul(FromInt(a), xs[i]), FromInt(b))]

\* The ranges with the element of column `which` at position k made NaN.
WithNaN(xs, ys, which, k) ==
    IF which = "x" THEN <<[xs EXCEPT ![k] = get_nan], ys>>
    ELSE IF which = "y" THEN <<xs, [ys EXCEPT ![k] = get_nan]>>
    ELSE <<xs, ys>>

SLR_Init ==
    /\ vis = "slr"
    /\ op = "new"
    /\ ap = Fresh.ap /\ imp = Fresh.imp /\ exec = Idle
    /\ sigm = Fresh.sigm /\ pll = Fresh.pll
    /\ pos = 0
    /\ \E xs \in SeqsOf(SlrXVals, 0, SlrMaxLen) \cup {SlrScenarioX},
          a \in SlrSlopes, b \in SlrIntercepts :
         \E which \in {"none", "x", "y"}, k \in 1..(SlrMaxLen + 1) :
            /\ IF which = "none" THEN k = 1 ELSE k <= Len(xs)
            /\ column1 = WithNaN(xs, Line(xs, a, b), which, k)[1]
            /\ column2 = WithNaN(xs, Line(xs, a, b), which, k)[2]
    /\ \E skipnan \in BOOLEAN : slr = SLR_new(skipnan)
    /\ km = Fresh.km /\ fft = Fresh.fft /\ ifft = Fresh.ifft
    /\ ent = Fresh.ent /\ rect = Fresh.rect /\ loss = Fresh.loss

\* PASS_DATA_ONE_BY_ONE_2: the range operator() is between two passes.
SLR_between == IF Len(column1) = 0 THEN TRUE ELSE pos % Len(column1) = 0

SLR_Pre ==
    /\ vis = "slr" /\ SLR_between
    /\ slr' = SLR_pre(slr)
    /\ pos' = 0
    /\ op' = "pre"
    /\ UNCHANGED <<vis, sigm, pll, ap, imp, exec, column1, column2, km, fft, ifft, ent, rect, loss>>

\* One iteration of the range operator(): the next pair goes to
\* operator() (idx, x, y).
SLR_Feed ==
    /\ vis = "slr"
    /\ pos < MaxPass * Len(column1)
    /\ LET i == (pos % Len(column1)) + 1
       IN  slr' = SLR_call(slr, column1[i], column2[i])
    /\ pos' = pos + 1
    /\ op' = "call"
    /\ UNCHANGED <<vis, sigm, pll, ap, imp, exec, column1, column2, km, fft, ifft, ent, rect, loss>>

SLR_Post ==
    /\ vis = "slr" /\ SLR_between /\ op = "call"
    /\ op' = "post"
    /\ UNCHANGED <<vis, sigm, pll, ap, imp, exec, column1, column2, pos, slr, km, fft, ifft, ent, rect, loss>>

SLR_Next == SLR_Pre \/ SLR_Feed \/ SLR_Post

SpecSLR == SLR_Init /\ [][SLR_Next]_vars

\* ---- KMeansVisitor ----

KmKs == {1, 2}

\* A value within sqrt(1e-7) of zero, zero, the small integers and infinity.
KmVals == {get_nan, Zero, <<1, 2000>>, <<1, 0>>} \cup {FromInt(i) : i \in 1..KmMaxVal}

KM_Init ==
    /\ vis = "km"
    /\ op = "new"
    /\ ap = Fresh.ap /\ imp = Fresh.imp /\ exec = Idle
    /\ sigm = Fresh.sigm /\ pll = Fresh.pll
    /\ pos = 0
    /\ column1 \in SeqsOf(KmVals, 1, KmMaxLen)
    /\ column2 = <<>>
    /\ \E K \in KmKs, num_of_iter \in 0..KmMaxIter, calc_clusters \in BOOLEAN :
          km = KM_new(K, num_of_iter, calc_clusters)
    /\ slr = Fresh.slr /\ fft = Fresh.fft /\ ifft = Fresh.ifft
    /\ ent = Fresh.ent /\ rect = Fresh.rect /\ loss = Fresh.loss

KM_Pre ==
    /\ vis = "km"
    /\ km' = KM_pre(km)
    /\ op' = "pre"
    /\ UNCHANGED <<vis, sigm, pll, ap, imp, exec, column1, column2, pos, slr, fft, ifft, ent, rect, loss>>

KM_Invoke ==
    /\ vis = "km"
    /\ \E draws \in [1..km.K -> 1..Len(column1)], junk \in KM_junk(km) :
          LET r == KM_call(km, column1, draws, junk)
          IN  km' = r.self /\ column1' = r.column
    /\ op' = "call"
    /\ UNCHANGED <<vis, sigm, pll, ap, imp, exec, column2, pos, slr, fft, ifft, ent, rect, loss>>

KM_Post ==
    /\ vis = "km" /\ op = "call"
    /\ op' = "post"
    /\ UNCHANGED <<vis, sigm, pll, ap, imp, exec, column1, column2, pos, slr, km, fft, ifft, ent, rect, loss>>

KM_Next == KM_Pre \/ KM_Invoke \/ KM_Post

SpecKM == KM_Init /\ [][KM_Next]_vars

\* ---- FastFourierTransVisitor, forward and inverse ----

\* The column lengths whose roots of unity the field of cplx_t holds.
FftLens == {0, 1, 2, 3, 4}

FftReals == {FromInt(i) : i \in (-1)..FftMaxVal}

FftCplxs == {Cplx(re, 1) : re \in 0..FftMaxVal}

\* The lengths of the columns the cached getters are driven over.
FftShortLens == {0, 1, 2}

FftColumns(S, lens) == UNION {[1..n -> S] : n \in lens}

\* The forward visitor is applied to column1; the inverse visitor to the
\* forward visitor's get_result().
FFT_Init ==
    /\ vis = "fft"
    /\ op = "new"
    /\ ap = Fresh.ap /\ imp = Fresh.imp /\ exec = Idle
    /\ sigm = Fresh.sigm /\ pll = Fresh.pll
    /\ pos = 0
    /\ \/ column1 \in FftColumns(FftReals, FftLens) /\ fft = FFT_new("real", FALSE)
       \/ column1 \in FftColumns(FftCplxs, FftLens) /\ fft = FFT_new("complex", FALSE)
    /\ column2 = <<>>
    /\ ifft = FFT_new("complex", TRUE)
    /\ slr = Fresh.slr /\ km = Fresh.km
    /\ ent = Fresh.ent /\ rect = Fresh.rect /\ loss = Fresh.loss

FFTC_Init ==
    /\ vis = "fft"
    /\ op = "new"
    /\ ap = Fresh.ap /\ imp = Fresh.imp /\ exec = Idle
    /\ sigm = Fresh.sigm /\ pll = Fresh.pll
    /\ pos = 0
    /\ \/ column1 \in FftColumns(FftReals, FftShortLens) /\ fft = FFT_new("real", FALSE)
       \/ column1 \in FftColumns(FftCplxs, FftShortLens) /\ fft = FFT_new("complex", FALSE)
    /\ column2 = <<>>
    /\ ifft = FFT_new("complex", TRUE)
    /\ slr = Fresh.slr /\ km = Fresh.km
    /\ ent = Fresh.ent /\ rect = Fresh.rect /\ loss = Fresh.loss

FFT_Pre ==
    /\ vis = "fft"
    /\ fft' = FFT_pre(fft)
    /\ op' = "pre"
    /\ UNCHANGED <<vis, sigm, pll, ap, imp, exec, column1, column2, pos, slr, km, ifft, ent, rect, loss>>

FFT_Invoke ==
    /\ vis = "fft"
    /\ LET r == FFT_call(fft, column1)
       IN  fft' = r.self /\ column1' = r.column
    /\ op' = "call"
    /\ UNCHANGED <<vis, sigm, pll, ap, imp, exec, column2, pos, slr, km, ifft, ent, rect, loss>>

FFT_Post ==
    /\ vis = "fft" /\ op = "call"
    /\ op' = "post"
    /\ UNCHANGED <<vis, sigm, pll, ap, imp, exec, column1, column2, pos, slr, km, fft, ifft, ent, rect, loss>>

FFT_GetMagnitude ==
    /\ vis = "fft"
    /\ fft' = FFT_get_magnitude(fft)
    /\ op' = "get_magnitude"
    /\ UNCHANGED <<vis, sigm, pll, ap, imp, exec, column1, column2, pos, slr, km, ifft, ent, rect, loss>>

FFT_GetAngle ==
    /\ vis = "fft"
    /\ fft' = FFT_get_angle(fft)
    /\ op' = "get_angle"
    /\ UNCHANGED <<vis, sigm, pll, ap, imp, exec, column1, column2, pos, slr, km, ifft, ent, rect, loss>>

IFFT_Pre ==
    /\ vis = "fft"
    /\ ifft' = FFT_pre(ifft)
    /\ op' = "inv_pre"
    /\ UNCHANGED <<vis, sigm, pll, ap, imp, exec, column1, column2, pos, slr, km, fft, ent, rect, loss>>

\* The range handed to the inverse visitor is the forward visitor's result_.
IFFT_Invoke ==
    /\ vis = "fft"
    /\ LET r == FFT_call(ifft, FFT_get_result(fft))
       IN  ifft' = r.self /\ fft' = [fft EXCEPT !.result_ = r.column]
    /\ op' = "inv_call"
    /\ UNCHANGED <<vis, sigm, pll, ap, imp, exec, column1, column2, pos, slr, km, ent, rect, loss>>

IFFT_Post ==
    /\ vis = "fft" /\ op = "inv_call"
    /\ op' = "inv_post"
    /\ UNCHANGED <<vis, sigm, pll, ap, imp, exec, column1, column2, pos, slr, km, fft, ifft, ent, rect, loss>>

IFFT_GetMagnitude ==
    /\ vis = "fft"
    /\ ifft' = FFT_get_magnitude(ifft)
    /\ op' = "inv_get_magnitude"
    /\ UNCHANGED <<vis, sigm, pll, ap, imp, exec, column1, column2, pos, slr, km, fft, ent, rect, loss>>

IFFT_GetAngle ==
    /\ vis = "fft"
    /\ ifft' = FFT_get_angle(ifft)
    /\ op' = "inv_get_angle"
    /\ UNCHANGED <<vis, sigm, pll, ap, imp, exec, column1, column2, pos, slr, km, fft, ent, rect, loss>>

\* pre() and operator() of the two visitors.
FFT_Next == FFT_Pre \/ FFT_Invoke \/ IFFT_Pre \/ IFFT_Invoke

SpecFFT == FFT_Init /\ [][FFT_Next]_vars

\* Every member function of the two visitors.
FFTC_Next ==
    \/ FFT_Next \/ FFT_Post \/ FFT_GetMagnitude \/ FFT_GetAngle
    \/ IFFT_Post \/ IFFT_GetMagnitude \/ IFFT_GetAngle

SpecFFTCache == FFTC_Init /\ [][FFTC_Next]_vars

\* ---- EntropyVisitor ----

EntVals == {get_nan} \cup {FromInt(i) : i \in 1..EntMaxVal}

\* The column is at least roll_count - 1 long: operator() forms
\* result.begin() + (roll_count_ - 1) and writes result[0 .. roll_count_ - 2].
Ent_Init ==
    /\ vis = "ent"
    /\ op = "new"
    /\ ap = Fresh.ap /\ imp = Fresh.imp /\ exec = Idle
    /\ sigm = Fresh.sigm /\ pll = Fresh.pll
    /\ pos = 0
    /\ \E roll_count \in 0..EntMaxWin :
          /\ ent = Ent_new(roll_count, FromInt(2))
          /\ column1 \in SeqsOf(EntVals, IF roll_count = 0 THEN 0 ELSE roll_count - 1,
                                EntMaxLen)
    /\ column2 = <<>>
    /\ slr = Fresh.slr /\ km = Fresh.km /\ fft = Fresh.fft /\ ifft = Fresh.ifft
    /\ rect = Fresh.rect /\ loss = Fresh.loss

\* pos counts the invocations since the last pre().
Ent_Pre ==
    /\ vis = "ent"
    /\ ent' = Ent_pre(ent)
    /\ pos' = 0
    /\ op' = "pre"
    /\ UNCHANGED <<vis, sigm, pll, ap, imp, exec, column1, column2, slr, km, fft, ifft, rect, loss>>

Ent_Invoke ==
    /\ vis = "ent"
    /\ pos < MaxPass
    /\ ent' = Ent_call(ent, column1).self
    /\ column1' = Ent_call(ent, column1).column
    /\ pos' = pos + 1
    /\ op' = "call"
    /\ UNCHANGED <<vis, sigm, pll, ap, imp, exec, column2, slr, km, fft, ifft, rect, loss>>

Ent_Post ==
    /\ vis = "ent" /\ op = "call"
    /\ op' = "post"
    /\ UNCHANGED <<vis, sigm, pll, ap, imp, exec, column1, column2, pos, slr, km, fft, ifft, ent, rect, loss>>

Ent_Next == Ent_Pre \/ Ent_Invoke \/ Ent_Post

SpecEnt == Ent_Init /\ [][Ent_Next]_vars

\* ---- RectifyVisitor ----

RectVals ==
    {get_nan, <<1, 0>>, <<-1, 0>>} \cup {FromInt(i) : i \in (-RectMaxVal)..RectMaxVal}

Rect_Init ==
    /\ vis = "rect"
    /\ op = "new"
    /\ ap = Fresh.ap /\ imp = Fresh.imp /\ exec = Idle
    /\ sigm = Fresh.sigm /\ pll = Fresh.pll
    /\ pos = 0
    /\ column1 \in SeqsOf(RectVals, 0, RectMaxLen)
    /\ column2 = <<>>
    /\ rect \in {Rect_new("ReLU", One), Rect_new("param_ReLU", <<1, 2>>)}
    /\ slr = Fresh.slr /\ km = Fresh.km /\ fft = Fresh.fft /\ ifft = Fresh.ifft
    /\ ent = Fresh.ent /\ loss = Fresh.loss

Rect_Pre ==
    /\ vis = "rect"
    /\ rect' = Rect_pre(rect)
    /\ pos' = 0
    /\ op' = "pre"
    /\ UNCHANGED <<vis, sigm, pll, ap, imp, exec, column1, column2, slr, km, fft, ifft, ent, loss>>

Rect_Invoke ==
    /\ vis = "rect"
    /\ pos < MaxPass
    /\ rect' = Rect_call(rect, column1).self
    /\ column1' = Rect_call(rect, column1).column
    /\ pos' = pos + 1
    /\ op' = "call"
    /\ UNCHANGED <<vis, sigm, pll, ap, imp, exec, column2, slr, km, fft, ifft, ent, loss>>

Rect_Post ==
    /\ vis = "rect" /\ op = "call"
    /\ op' = "post"
    /\ UNCHANGED <<vis, sigm, pll, ap, imp, exec, column1, column2, pos, slr, km, fft, ifft, ent, rect, loss>>

Rect_Next == Rect_Pre \/ Rect_Invoke \/ Rect_Post

SpecRect == Rect_Init /\ [][Rect_Next]_vars

\* ---- LossFunctionVisitor ----

LossVals ==
    {get_nan, <<1, 0>>, <<-1, 0>>} \cup {FromInt(i) : i \in (-LossMaxVal)..LossMaxVal}

\* column1 is the actual range, column2 the model range, of one length.
Loss_Init ==
    /\ vis = "loss"
    /\ op = "new"
    /\ ap = Fresh.ap /\ imp = Fresh.imp /\ exec = Idle
    /\ sigm = Fresh.sigm /\ pll = Fresh.pll
    /\ pos = 0
    /\ \E n \in 0..LossMaxLen :
          column1 \in [1..n -> LossVals] /\ column2 \in [1..n -> LossVals]
    /\ \E lft \in loss_function_type : loss = Loss_new(lft)
    /\ slr = Fresh.slr /\ km = Fresh.km /\ fft = Fresh.fft /\ ifft = Fresh.ifft
    /\ ent = Fresh.ent /\ rect = Fresh.rect

Loss_Pre ==
    /\ vis = "loss"
    /\ loss' = Loss_pre(loss)
    /\ op' = "pre"
    /\ UNCHANGED <<vis, sigm, pll, ap, imp, exec, column1, column2, pos, slr, km, fft, ifft, ent, rect>>

Loss_Invoke ==
    /\ vis = "loss"
    /\ loss' = Loss_call(loss, column1, column2).self
    /\ column1' = Loss_call(loss, column1, column2).actual
    /\ column2' = Loss_call(loss, column1, column2).model
    /\ op' = "call"
    /\ UNCHANGED <<vis, sigm, pll, ap, imp, exec, pos, slr, km, fft, ifft, ent, rect>>

Loss_Post ==
    /\ vis = "loss" /\ op = "call"
    /\ op' = "post"
    /\ UNCHANGED <<vis, sigm, pll, ap, imp, exec, column1, column2, pos, slr, km, fft, ifft, ent, rect, loss>>

Loss_Next == Loss_Pre \/ Loss_Invoke \/ Loss_Post

SpecLoss == Loss_Init /\ [][Loss_Next]_vars

\* ---- KMeansVisitor, calc_k_means_ followed iteration by iteration ----
\* exec holds the locals of calc_k_means_ at the head of its for loop: the
\* positions drawn for the seeds, iter, and the `done` the last pass ended
\* with (FALSE before the first).

KS_Init ==
    /\ vis = "km_steps"
    /\ op = "new"
    /\ ap = Fresh.ap /\ imp = Fresh.imp /\ exec = Idle
    /\ sigm = Fresh.sigm /\ pll = Fresh.pll
    /\ pos = 0
    /\ column1 \in SeqsOf(KmVals, 1, KmMaxLen)
    /\ column2 = <<>>
    /\ \E K \in KmKs, num_of_iter \in 0..KmMaxIter, calc_clusters \in BOOLEAN :
          km = KM_new(K, num_of_iter, calc_clusters)
    /\ slr = Fresh.slr /\ fft = Fresh.fft /\ ifft = Fresh.ifft
    /\ ent = Fresh.ent /\ rect = Fresh.rect /\ loss = Fresh.loss

KS_rest == UNCHANGED <<vis, sigm, pll, column1, column2, pos, slr, fft, ifft, ent, rect,
                       loss, ap, imp>>

KS_Pre ==
    /\ vis = "km_steps" /\ exec.pc = "idle"
    /\ km' = KM_pre(km)
    /\ op' = "pre"
    /\ UNCHANGED exec
    /\ KS_rest

\* operator() enters calc_k_means_: "Pick centroids as random points from
\* the col".
KS_Seed ==
    /\ vis = "km_steps" /\ exec.pc = "idle"
    /\ \E draws \in [1..km.K -> 1..Len(column1)] :
          /\ km' = [km EXCEPT !.result_ = KM_seed(km.result_, column1, draws)]
          /\ exec' = [pc |-> "loop", draws |-> draws, iter |-> 0, done |-> FALSE]
    /\ UNCHANGED op
    /\ KS_rest

\* One pass of for (size_type iter = 0; iter < iter_num_; ++iter), entered
\* when the pass before did not break.
KS_Iterate ==
    /\ vis = "km_steps" /\ exec.pc = "loop"
    /\ exec.iter < km.iter_num_ /\ ~exec.done
    /\ LET s == KM_step(km.result_, column1)
       IN  /\ km' = [km EXCEPT !.result_ = s.means]
           /\ exec' = [exec EXCEPT !.iter = @ + 1, !.done = s.done]
    /\ UNCHANGED op
    /\ KS_rest

\* The loop is left, by its test or by break; calc_clusters_ follows if cc_.
KS_Finish ==
    /\ vis = "km_steps" /\ exec.pc = "loop"
    /\ exec.iter >= km.iter_num_ \/ exec.done
    /\ \E junk \in KM_junk(km) :
          km' = IF km.cc_ THEN calc_clusters_(km, column1, junk) ELSE km
    /\ exec' = Idle
    /\ op' = "call"
    /\ KS_rest

KS_Post ==
    /\ vis = "km_steps" /\ exec.pc = "idle" /\ op = "call"
    /\ op' = "post"
    /\ UNCHANGED <<km, exec>>
    /\ KS_rest

KS_Next == KS_Pre \/ KS_Seed \/ KS_Iterate \/ KS_Finish \/ KS_Post

SpecKMSteps == KS_Init /\ [][KS_Next]_vars

\* The head of the loop is left, by a pass or by the exit.
KS_Advance ==
    /\ vis = "km_steps" /\ exec.pc = "loop"
    /\ exec' \in {Idle} \cup {[exec EXCEPT !.iter = @ + 1, !.done = d] :
                                 d \in BOOLEAN}

\* operator() runs on once it is called.
SpecKMStepsFair == KS_Init /\ [][KS_Next]_vars /\ WF_exec(KS_Advance)

\* ---- FastFourierTransVisitor, operator() followed step by step ----
\* The path operator() takes depends on the length of the column alone, so
\* the column here is all zeros.  exec.stack holds one frame per function
\* entered and not yet left; a step records in exec.acc the vector elements
\* it reads or writes, each as <<vector, index, size of the vector>> with
\* the 0-based index of the source, and in exec.calls every function entry.

\* The frame of a function entered with a vector of col_s elements.  column
\* tells, for fft_radix2_, which original element each position holds.
Frame(fn, col_s, reverse) ==
    [fn |-> fn, pc |-> "enter", col_s |-> col_s, reverse |-> reverse,
     levels |-> 0, m |-> 0, i |-> 0, s |-> 0, j |-> 0, k |-> 0,
     column |-> IF fn = "fft_radix2_" THEN [x \in 1..col_s |-> x - 1] ELSE <<>>,
     swaps |-> <<>>]

Top == exec.stack[Len(exec.stack)]

\* Every element of a vector of `size` elements, as a std::transform over
\* the whole vector touches them.
Whole(vector, size) == {<<vector, x, size>> : x \in 0..(size - 1)}

\* The state of the call after a step of function fn at position pc that
\* leaves the frames `stack`, made the accesses acc and entered `entered`.
Stepped(stack, acc, entered, fn, pc) ==
    [exec EXCEPT !.stack = stack, !.acc = acc,
                 !.nacc = @ + Cardinality(acc),
                 !.calls = @ \o [x \in 1..Len(entered) |->
                                    [fn |-> entered[x].fn, col_s |-> entered[x].col_s,
                                     by |-> fn,
                                     inside |-> [y \in 1..Len(exec.stack) |->
                                                    exec.stack[y].fn]]],
                 !.step = <<fn, pc>>]

\* The frames with the top one replaced by f, and g entered above it.
Replaced(f) == [exec.stack EXCEPT ![Len(exec.stack)] = f]

Entered(f, g) == Append(Replaced(f), g)

FS_Init ==
    /\ vis \in {"fft_steps", "ifft_steps"}
    /\ op = "new"
    /\ ap = Fresh.ap /\ imp = Fresh.imp /\ exec = Idle
    /\ sigm = Fresh.sigm /\ pll = Fresh.pll
    /\ pos = 0
    /\ \E n \in 0..FftMaxPathLen :
          column1 = IF vis = "fft_steps" THEN [x \in 1..n |-> Zero]
                    ELSE [x \in 1..n |-> CZero]
    /\ column2 = <<>>
    /\ fft = FFT_new("real", FALSE)
    /\ ifft = FFT_new("complex", TRUE)
    /\ slr = Fresh.slr /\ km = Fresh.km
    /\ ent = Fresh.ent /\ rect = Fresh.rect /\ loss = Fresh.loss

FS_running == vis \in {"fft_steps", "ifft_steps"} /\ exec.pc = "running"

FS_rest == UNCHANGED <<vis, sigm, pll, op, column1, column2, pos, slr, km, fft, ifft,
                       ent, rect, loss, ap, imp>>

FS_Pre ==
    /\ vis \in {"fft_steps", "ifft_steps"} /\ exec.pc # "running"
    /\ fft' = IF vis = "fft_steps" THEN FFT_pre(fft) ELSE fft
    /\ ifft' = IF vis = "ifft_steps" THEN FFT_pre(ifft) ELSE ifft
    /\ exec' = Idle
    /\ op' = "pre"
    /\ UNCHANGED <<vis, sigm, pll, column1, column2, pos, slr, km, ent, rect, loss, ap, imp>>

\* operator(): result (col_s) is filled from the column, then itransform_
\* or transform_ is entered.
FS_Begin ==
    /\ vis \in {"fft_steps", "ifft_steps"} /\ exec.pc = "idle"
    /\ LET col_s == Len(column1)
           callee == Frame(IF vis = "ifft_steps" THEN "itransform_" ELSE "transform_",
                           col_s, FALSE)
       IN  exec' = [pc |-> "running", stack |-> <<callee>>,
                    acc |-> Whole("column", col_s),
                    nacc |-> Cardinality(Whole("column", col_s)),
                    calls |-> <<[fn |-> callee.fn, col_s |-> col_s,
                                 by |-> "operator()", inside |-> <<>>]>>,
                    step |-> <<"operator()", "enter">>]
    /\ FS_rest

\* transform_: nothing for col_s == 0, fft_radix2_ for a power of two,
\* fft_bluestein_ otherwise.
FS_transform_ ==
    /\ FS_running /\ Top.fn = "transform_" /\ Top.pc = "enter"
    /\ LET f == [Top EXCEPT !.pc = "ret"]
           callee == Frame(IF IsPow2(Top.col_s) THEN "fft_radix2_" ELSE "fft_bluestein_",
                           Top.col_s, Top.reverse)
       IN  exec' = IF Top.col_s = 0
                   THEN Stepped(Replaced(f), {}, <<>>, "transform_", "enter")
                   ELSE Stepped(Entered(f, callee), {}, <<callee>>, "transform_", "enter")
    /\ FS_rest

\* itransform_: the std::transform that conjugates (twice) and the one that
\* scales.
FS_itransform_loop ==
    /\ FS_running /\ Top.fn = "itransform_" /\ Top.pc \in {"enter", "conj", "scale"}
    /\ exec' = Stepped(Replaced([Top EXCEPT !.pc = IF Top.pc = "enter" THEN "test"
                                                  ELSE IF Top.pc = "conj" THEN "scale"
                                                  ELSE "ret"]),
                       Whole("column", Top.col_s), <<>>, "itransform_", Top.pc)
    /\ FS_rest

\* itransform_: "Forward fft", fft_radix2_ or fft_bluestein_.
FS_itransform_test ==
    /\ FS_running /\ Top.fn = "itransform_" /\ Top.pc = "test"
    /\ LET callee == Frame(IF IsPow2(Top.col_s) THEN "fft_radix2_" ELSE "fft_bluestein_",
                           Top.col_s, FALSE)
       IN  exec' = Stepped(Entered([Top EXCEPT !.pc = "conj"], callee), {},
                           <<callee>>, "itransform_", "test")
    /\ FS_rest

\* Where fft_radix2_ stands once the permutation loop is over: at the first
\* butterfly, or past the loops.
FS_at_butterflies(f) ==
    IF 2 <= f.col_s
    THEN [f EXCEPT !.pc = "butterfly", !.s = 2, !.i = 0, !.j = 0, !.k = 0]
    ELSE [f EXCEPT !.pc = "ret"]

\* fft_radix2_: levels and the "Trigonometric table".
FS_radix2_table ==
    /\ FS_running /\ Top.fn = "fft_radix2_" /\ Top.pc = "enter"
    /\ LET f == [Top EXCEPT !.levels = fft_levels(Top.col_s), !.i = 0,
                            !.pc = "permute"]
       IN  exec' = Stepped(Replaced(IF Top.col_s = 0 THEN FS_at_butterflies(f) ELSE f),
                           Whole("exp_table", Top.col_s \div 2), <<>>,
                           "fft_radix2_", "enter")
    /\ FS_rest

\* fft_radix2_: one pass of the "Bit-reversed addressing permutation" loop.
FS_radix2_permute ==
    /\ FS_running /\ Top.fn = "fft_radix2_" /\ Top.pc = "permute"
    /\ LET i == Top.i
           rb == reverse_bits_(i, Top.levels)
           swapped == IF rb > i /\ rb < Top.col_s
                      THEN [Top.column EXCEPT ![i + 1] = Top.column[rb + 1],
                                              ![rb + 1] = Top.column[i + 1]]
                      ELSE Top.column
           f == [Top EXCEPT !.i = i + 1, !.column = swapped,
                            !.swaps = IF rb > i THEN Append(@, <<i, rb>>) ELSE @]
       IN  exec' = Stepped(Replaced(IF i + 1 < Top.col_s THEN f
                                    ELSE FS_at_butterflies(f)),
                           IF rb > i THEN {<<"column", i, Top.col_s>>,
                                           <<"column", rb, Top.col_s>>}
                           ELSE {},
                           <<>>, "fft_radix2_", "permute")
    /\ FS_rest

\* fft_radix2_: one pass of the innermost butterfly loop, and the loop
\* headers that follow it.
FS_radix2_butterfly ==
    /\ FS_running /\ Top.fn = "fft_radix2_" /\ Top.pc = "butterfly"
    /\ LET s == Top.s
           i == Top.i
           j == Top.j
           k == Top.k
           col_s == Top.col_s
           half_size == s \div 2
           table_step == col_s \div s
           f == IF j + 1 < i + half_size
                THEN [Top EXCEPT !.j = j + 1, !.k = k + table_step]
                ELSE IF i + s < col_s
                THEN [Top EXCEPT !.i = i + s, !.j = i + s, !.k = 0]
                ELSE IF s * 2 <= col_s
                THEN [Top EXCEPT !.s = s * 2, !.i = 0, !.j = 0, !.k = 0]
                ELSE [Top EXCEPT !.pc = "ret"]
       IN  exec' = Stepped(Replaced(f),
                           {<<"column", j + half_size, col_s>>,
                            <<"exp_table", k, col_s \div 2>>,
                            <<"column", j, col_s>>},
                           <<>>, "fft_radix2_", "butterfly")
    /\ FS_rest

\* fft_bluestein_: the "Trigonometric table" and the convolution length m.
FS_bluestein_table ==
    /\ FS_running /\ Top.fn = "fft_bluestein_" /\ Top.pc = "enter"
    /\ exec' = Stepped(Replaced([Top EXCEPT !.m = bluestein_m(1, Top.col_s),
                                            !.pc = "xvec"]),
                       Whole("exp_table", Top.col_s), <<>>,
                       "fft_bluestein_", "enter")
    /\ FS_rest

\* fft_bluestein_: xvec[i] = column[i] * exp_table[i] for every i < col_s.
FS_bluestein_xvec ==
    /\ FS_running /\ Top.fn = "fft_bluestein_" /\ Top.pc = "xvec"
    /\ exec' = Stepped(Replaced([Top EXCEPT !.pc = "yvec", !.i = 0]),
                       UNION {{<<"xvec", x, Top.m>>, <<"column", x, Top.col_s>>,
                               <<"exp_table", x, Top.col_s>>} :
                              x \in 0..(Top.col_s - 1)},
                       <<>>, "fft_bluestein_", "xvec")
    /\ FS_rest

\* fft_bluestein_: yvec[0] = exp_table[0], then one pass of
\* yvec[i] = yvec[m - i] = std::conj(exp_table[i]).
FS_bluestein_yvec ==
    /\ FS_running /\ Top.fn = "fft_bluestein_" /\ Top.pc = "yvec"
    /\ LET i == Top.i
           f == IF i + 1 < Top.col_s THEN [Top EXCEPT !.i = i + 1]
                ELSE [Top EXCEPT !.pc = "convolve"]
       IN  exec' = Stepped(Replaced(f),
                           IF i = 0
                           THEN {<<"yvec", 0, Top.m>>, <<"exp_table", 0, Top.col_s>>}
                           ELSE {<<"yvec", i, Top.m>>, <<"yvec", Top.m - i, Top.m>>,
                                 <<"exp_table", i, Top.col_s>>},
                           <<>>, "fft_bluestein_", "yvec")
    /\ FS_rest

\* fft_bluestein_: convolve_(xvec, yvec); the frame of convolve_ keeps the
\* size of xvec as col_s and the size of yvec as m.
FS_bluestein_convolve ==
    /\ FS_running /\ Top.fn = "fft_bluestein_" /\ Top.pc = "convolve"
    /\ LET callee == [Frame("convolve_", Top.m, FALSE) EXCEPT !.m = Top.m]
       IN  exec' = Stepped(Entered([Top EXCEPT !.pc = "post"], callee), {},
                           <<callee>>, "fft_bluestein_", "convolve")
    /\ FS_rest

\* fft_bluestein_: "Postprocessing".
FS_bluestein_post ==
    /\ FS_running /\ Top.fn = "fft_bluestein_" /\ Top.pc = "post"
    /\ exec' = Stepped(Replaced([Top EXCEPT !.pc = "ret"]),
                       UNION {{<<"exp_table", x, Top.col_s>>, <<"conv", x, Top.m>>,
                               <<"column", x, Top.col_s>>} :
                              x \in 0..(Top.col_s - 1)},
                       <<>>, "fft_bluestein_", "post")
    /\ FS_rest

\* convolve_: transform_(xvec, false), transform_(yvec, false) and
\* transform_(xvec, true).
FS_convolve_transform ==
    /\ FS_running /\ Top.fn = "convolve_" /\ Top.pc \in {"enter", "second", "back"}
    /\ LET callee == Frame("transform_",
                           IF Top.pc = "second" THEN Top.m ELSE Top.col_s,
                           Top.pc = "back")
       IN  exec' = Stepped(Entered([Top EXCEPT !.pc = IF Top.pc = "enter" THEN "second"
                                                      ELSE IF Top.pc = "second" THEN "mul"
                                                      ELSE "scale"],
                                   callee),
                           {}, <<callee>>, "convolve_", Top.pc)
    /\ FS_rest

\* convolve_: the std::transform that multiplies xvec by yvec and the one
\* that divides xvec by its size.
FS_convolve_loop ==
    /\ FS_running /\ Top.fn = "convolve_" /\ Top.pc \in {"mul", "scale"}
    /\ exec' = Stepped(Replaced([Top EXCEPT !.pc = IF Top.pc = "mul" THEN "back"
                                                  ELSE "ret"]),
                       IF Top.pc = "mul"
                       THEN UNION {{<<"xvec", x, Top.col_s>>, <<"yvec", x, Top.m>>} :
                                   x \in 0..(Top.col_s - 1)}
                       ELSE Whole("xvec", Top.col_s),
                       <<>>, "convolve_", Top.pc)
    /\ FS_rest

\* A function returns to its caller.
FS_return ==
    /\ FS_running /\ Top.pc = "ret" /\ Len(exec.stack) > 1
    /\ exec' = Stepped(SubSeq(exec.stack, 1, Len(exec.stack) - 1), {}, <<>>,
                       Top.fn, "ret")
    /\ FS_rest

\* transform_ or itransform_ returns to operator(), which swaps the vector
\* into result_.
FS_End ==
    /\ FS_running /\ Top.pc = "ret" /\ Len(exec.stack) = 1
    /\ exec' = [Stepped(<<>>, {}, <<>>, "operator()", "ret") EXCEPT !.pc = "done"]
    /\ fft' = IF vis = "fft_steps" THEN FFT_call(fft, column1).self ELSE fft
    /\ ifft' = IF vis = "ifft_steps" THEN FFT_call(ifft, column1).self ELSE ifft
    /\ op' = "call"
    /\ UNCHANGED <<vis, sigm, pll, column1, column2, pos, slr, km, ent, rect, loss, ap, imp>>

FS_Next ==
    \/ FS_Pre \/ FS_Begin \/ FS_transform_ \/ FS_itransform_loop
    \/ FS_itransform_test \/ FS_radix2_table \/ FS_radix2_permute
    \/ FS_radix2_butterfly \/ FS_bluestein_table \/ FS_bluestein_xvec
    \/ FS_bluestein_yvec \/ FS_bluestein_convolve \/ FS_bluestein_post
    \/ FS_convolve_transform \/ FS_convolve_loop \/ FS_return \/ FS_End

SpecFFTSteps == FS_Init /\ [][FS_Next]_vars

\* ---- AffinityPropVisitor ----

ApVals == {FromInt(i) : i \in 0..ApMaxVal}

ApFactors == {<<9, 10>>, <<1, 2>>}

AP_Init ==
    /\ vis = "ap"
    /\ op = "new"
    /\ pos = 0
    /\ column1 \in SeqsOf(ApVals, 2, ApMaxLen)
    /\ column2 = <<>>
    /\ \E num_of_iter \in 0..ApMaxIter, damping_factor \in ApFactors :
          ap = AP_new(num_of_iter, damping_factor)
    /\ slr = Fresh.slr /\ km = Fresh.km /\ fft = Fresh.fft /\ ifft = Fresh.ifft
    /\ ent = Fresh.ent /\ rect = Fresh.rect /\ loss = Fresh.loss
    /\ imp = Fresh.imp /\ exec = Idle
    /\ sigm = Fresh.sigm /\ pll = Fresh.pll

AP_Pre ==
    /\ vis = "ap"
    /\ ap' = AP_pre(ap)
    /\ pos' = 0
    /\ op' = "pre"
    /\ UNCHANGED <<vis, sigm, pll, imp, exec, column1, column2, slr, km, fft, ifft, ent, rect, loss>>

AP_Invoke ==
    /\ vis = "ap"
    /\ pos < MaxPass
    /\ ap' = AP_call(ap, column1).self
    /\ column1' = AP_call(ap, column1).column
    /\ pos' = pos + 1
    /\ op' = "call"
    /\ UNCHANGED <<vis, sigm, pll, imp, exec, column2, slr, km, fft, ifft, ent, rect, loss>>

AP_Post ==
    /\ vis = "ap" /\ op = "call"
    /\ op' = "post"
    /\ UNCHANGED <<vis, sigm, pll, ap, imp, exec, column1, column2, pos, slr, km, fft, ifft, ent, rect, loss>>

AP_Next == AP_Pre \/ AP_Invoke \/ AP_Post

SpecAP == AP_Init /\ [][AP_Next]_vars

\* ---- AffinityPropVisitor, get_similarity_ followed step by step ----
\* exec holds the locals of get_similarity_ (i, j, simil, min_dist), the
\* number of calls of dfunc_ so far (evals) and the column positions
\* dereferenced so far (touched, 0-based).  size_type is unsigned:
\* csize - 1 is taken modulo 2^SizeTypeBits.

SizeTypeMod == 2 ^ SizeTypeBits

GS_Init ==
    /\ vis = "ap_steps"
    /\ op = "new"
    /\ pos = 0
    /\ column1 \in SeqsOf(ApVals, 0, ApMaxLen)
    /\ column2 = <<>>
    /\ \E num_of_iter \in 0..ApMaxIter, damping_factor \in ApFactors :
          ap = AP_new(num_of_iter, damping_factor)
    /\ slr = Fresh.slr /\ km = Fresh.km /\ fft = Fresh.fft /\ ifft = Fresh.ifft
    /\ ent = Fresh.ent /\ rect = Fresh.rect /\ loss = Fresh.loss
    /\ imp = Fresh.imp /\ exec = Idle
    /\ sigm = Fresh.sigm /\ pll = Fresh.pll

GS_rest == UNCHANGED <<vis, sigm, pll, column1, column2, slr, km, fft, ifft, ent, rect,
                       loss, imp>>

GS_Pre ==
    /\ vis = "ap_steps" /\ exec.pc = "idle"
    /\ ap' = AP_pre(ap)
    /\ pos' = 0
    /\ op' = "pre"
    /\ UNCHANGED exec
    /\ GS_rest

\* operator() calls get_similarity_: vec_t<double> simil((csize * (csize +
\* 1)) / 2, 0.0); double min_dist = std::numeric_limits<double>::max();
GS_Begin ==
    /\ vis = "ap_steps" /\ exec.pc = "idle"
    /\ pos < MaxPass
    /\ LET csize == Len(column1)
       IN  exec' = [pc |-> "outer", i |-> 0, j |-> 0,
                    simil |-> [x \in 1..((csize * (csize + 1)) \div 2) |-> Zero],
                    min_dist |-> DblMax, evals |-> 0, touched |-> {}]
    /\ pos' = pos + 1
    /\ UNCHANGED <<ap, op>>
    /\ GS_rest

\* for (size_type i = 0; i < csize - 1; ++i) entered:
\* const value_type &i_val = *(column_begin + i);  Past the end of the
\* column the dereference is undefined: the process ends there, or nothing
\* is read and the loop goes on.
GS_Outer ==
    /\ vis = "ap_steps" /\ exec.pc = "outer"
    /\ exec.i < (Len(column1) - 1) % SizeTypeMod
    /\ LET entered == [exec EXCEPT !.touched = @ \cup {exec.i},
                                   !.j = exec.i + 1,
                                   !.pc = "inner"]
       IN  IF exec.i < Len(column1) THEN exec' = entered
           ELSE \E outcome \in {"ended", "stray"} :
                   exec' = IF outcome = "ended"
                           THEN [entered EXCEPT !.pc = "crashed"]
                           ELSE entered
    /\ UNCHANGED <<ap, op, pos>>
    /\ GS_rest

\* One pass of for (size_type j = i + 1; j < csize; ++j)
GS_Inner ==
    /\ vis = "ap_steps" /\ exec.pc = "inner"
    /\ exec.j < Len(column1)
    /\ LET dist == RNeg(AP_dfunc(column1[exec.i + 1], column1[exec.j + 1]))
       IN  exec' = [exec EXCEPT
                      !.simil[AP_simil_index(exec.i, exec.j, Len(column1)) + 1] = dist,
                      !.min_dist = IF RLess(dist, @) THEN dist ELSE @,
                      !.evals = @ + 1,
                      !.touched = @ \cup {exec.j},
                      !.j = @ + 1]
    /\ UNCHANGED <<ap, op, pos>>
    /\ GS_rest

\* The inner loop is over: ++i
GS_InnerExit ==
    /\ vis = "ap_steps" /\ exec.pc = "inner"
    /\ exec.j >= Len(column1)
    /\ exec' = [exec EXCEPT !.i = @ + 1, !.pc = "outer"]
    /\ UNCHANGED <<ap, op, pos>>
    /\ GS_rest

\* The outer loop is over.
GS_OuterExit ==
    /\ vis = "ap_steps" /\ exec.pc = "outer"
    /\ ~(exec.i < (Len(column1) - 1) % SizeTypeMod)
    /\ exec' = [exec EXCEPT !.i = 0, !.pc = "diag"]
    /\ UNCHANGED <<ap, op, pos>>
    /\ GS_rest

\* "Assign min to diagonals", one pass.
GS_Diag ==
    /\ vis = "ap_steps" /\ exec.pc = "diag"
    /\ exec.i < Len(column1)
    /\ exec' = [exec EXCEPT
                  !.simil[AP_simil_index(exec.i, exec.i, Len(column1)) + 1] =
                      exec.min_dist,
                  !.i = @ + 1]
    /\ UNCHANGED <<ap, op, pos>>
    /\ GS_rest

\* return (simil);
GS_Return ==
    /\ vis = "ap_steps" /\ exec.pc = "diag"
    /\ exec.i >= Len(column1)
    /\ exec' = [exec EXCEPT !.pc = "returned"]
    /\ UNCHANGED <<ap, op, pos>>
    /\ GS_rest

\* The rest of operator(): get_avail_and_respon and the centers.
GS_Finish ==
    /\ vis = "ap_steps" /\ exec.pc = "returned"
    /\ LET col_s == Len(column1)
           ar == get_avail_and_respon(ap, exec.simil, col_s)
       IN  ap' = [ap EXCEPT !.result_ = @ \o AP_centers(col_s, ar)]
    /\ exec' = Idle
    /\ op' = "call"
    /\ UNCHANGED pos
    /\ GS_rest

GS_Post ==
    /\ vis = "ap_steps" /\ exec.pc = "idle" /\ op = "call"
    /\ op' = "post"
    /\ UNCHANGED <<ap, exec, pos>>
    /\ GS_rest

GS_Next ==
    \/ GS_Pre \/ GS_Begin \/ GS_Outer \/ GS_Inner \/ GS_InnerExit
    \/ GS_OuterExit \/ GS_Diag \/ GS_Return \/ GS_Finish \/ GS_Post

SpecAPSteps == GS_Init /\ [][GS_Next]_vars

\* ---- ImpurityVisitor ----

ImpVals == {FromInt(i) : i \in 1..ImpMaxVal}

Imp_Init ==
    /\ vis = "imp"
    /\ op = "new"
    /\ pos = 0
    /\ column1 \in SeqsOf(ImpVals, 0, ImpMaxLen)
    /\ column2 = <<>>
    /\ \E roll_count \in 0..ImpMaxWin, it \in impurity_type :
          imp = Imp_new(roll_count, it)
    /\ slr = Fresh.slr /\ km = Fresh.km /\ fft = Fresh.fft /\ ifft = Fresh.ifft
    /\ ent = Fresh.ent /\ rect = Fresh.rect /\ loss = Fresh.loss
    /\ ap = Fresh.ap /\ exec = Idle
    /\ sigm = Fresh.sigm /\ pll = Fresh.pll

Imp_Pre ==
    /\ vis = "imp"
    /\ imp' = Imp_pre(imp)
    /\ pos' = 0
    /\ op' = "pre"
    /\ UNCHANGED <<vis, sigm, pll, ap, exec, column1, column2, slr, km, fft, ifft, ent, rect, loss>>

Imp_Invoke ==
    /\ vis = "imp"
    /\ pos < MaxPass
    /\ imp' = Imp_call(imp, column1).self
    /\ column1' = Imp_call(imp, column1).column
    /\ pos' = pos + 1
    /\ op' = "call"
    /\ UNCHANGED <<vis, sigm, pll, ap, exec, column2, slr, km, fft, ifft, ent, rect, loss>>

Imp_Post ==
    /\ vis = "imp" /\ op = "call"
    /\ op' = "post"
    /\ UNCHANGED <<vis, sigm, pll, ap, imp, exec, column1, column2, pos, slr, km, fft, ifft, ent, rect, loss>>

Imp_Next == Imp_Pre \/ Imp_Invoke \/ Imp_Post

SpecImp == Imp_Init /\ [][Imp_Next]_vars

\* ---- ImpurityVisitor, operator() followed pass by pass ----
\* exec holds the locals of operator(): table, i and result, at the head of
\* the result loop ("loop"), between the push and the slide ("slide"), after
\* the break ("break"), or where the process ended ("crashed").

ImpStepVals == {get_nan} \cup ImpVals

IS_Init ==
    /\ vis = "imp_steps"
    /\ op = "new"
    /\ pos = 0
    /\ column1 \in SeqsOf(ImpStepVals, 0, ImpMaxLen)
    /\ column2 = <<>>
    /\ \E roll_count \in 0..ImpMaxWin, it \in impurity_type :
          imp = Imp_new(roll_count, it)
    /\ slr = Fresh.slr /\ km = Fresh.km /\ fft = Fresh.fft /\ ifft = Fresh.ifft
    /\ ent = Fresh.ent /\ rect = Fresh.rect /\ loss = Fresh.loss
    /\ ap = Fresh.ap /\ exec = Idle
    /\ sigm = Fresh.sigm /\ pll = Fresh.pll

IS_rest == UNCHANGED <<vis, sigm, pll, column1, column2, slr, km, fft, ifft, ent, rect,
                       loss, ap>>

IS_Pre ==
    /\ vis = "imp_steps" /\ exec.pc = "idle"
    /\ imp' = Imp_pre(imp)
    /\ pos' = 0
    /\ op' = "pre"
    /\ UNCHANGED exec
    /\ IS_rest

\* if (roll_count_ == 0 || roll_count_ > col_s) return;
IS_Return ==
    /\ vis = "imp_steps" /\ exec.pc = "idle"
    /\ pos < MaxPass
    /\ imp.roll_count_ = 0 \/ imp.roll_count_ > Len(column1)
    /\ pos' = pos + 1
    /\ op' = "call"
    /\ UNCHANGED <<imp, exec>>
    /\ IS_rest

\* The table of the first window and the empty result.
IS_Begin ==
    /\ vis = "imp_steps" /\ exec.pc = "idle"
    /\ pos < MaxPass
    /\ ~(imp.roll_count_ = 0 \/ imp.roll_count_ > Len(column1))
    /\ exec' = [pc |-> "loop", i |-> 1, result |-> <<>>,
                table |-> Imp_table_init(column1, 0, imp.roll_count_, <<>>)]
    /\ pos' = pos + 1
    /\ UNCHANGED <<imp, op>>
    /\ IS_rest

\* The first half of a pass: the value of the table is pushed, and
\* if (roll_end > col_s) break;
IS_Push ==
    /\ vis = "imp_steps" /\ exec.pc = "loop"
    /\ exec.i < Len(column1)
    /\ exec' = [exec EXCEPT
                  !.result = Append(@, Imp_value(imp, exec.table)),
                  !.pc = IF exec.i + imp.roll_count_ > Len(column1)
                         THEN "break" ELSE "slide"]
    /\ UNCHANGED <<imp, op, pos>>
    /\ IS_rest

\* The second half: the leaving element is looked up and counted down, the
\* entering one counted up.  When find returns end(), find_ret->second is a
\* write through an iterator that refers to no entry: the process ends
\* there, or the write lands outside the table and the pass goes on.
IS_Slide ==
    /\ vis = "imp_steps" /\ exec.pc = "slide"
    /\ LET find_ret == Imp_find(exec.table, column1[exec.i])
           roll_end == exec.i + imp.roll_count_
       IN  IF find_ret # 0
           THEN exec' = [exec EXCEPT
                           !.table = Imp_table_add(
                                        Imp_table_decrement(@, find_ret),
                                        column1[roll_end]),
                           !.i = @ + 1,
                           !.pc = "loop"]
           ELSE \E outcome \in {"ended", "stray"} :
                   exec' = IF outcome = "ended"
                           THEN [exec EXCEPT !.pc = "crashed"]
                           ELSE [exec EXCEPT
                                   !.table = Imp_table_add(@, column1[roll_end]),
                                   !.i = @ + 1,
                                   !.pc = "loop"]
    /\ UNCHANGED <<imp, op, pos>>
    /\ IS_rest

\* The loop is left by its test or by break: result_.swap(result);
IS_End ==
    /\ vis = "imp_steps"
    /\ \/ exec.pc = "break"
       \/ exec.pc = "loop" /\ exec.i >= Len(column1)
    /\ imp' = [imp EXCEPT !.result_ = exec.result]
    /\ exec' = Idle
    /\ op' = "call"
    /\ UNCHANGED pos
    /\ IS_rest

IS_Post ==
    /\ vis = "imp_steps" /\ exec.pc = "idle" /\ op = "call"
    /\ op' = "post"
    /\ UNCHANGED <<imp, exec, pos>>
    /\ IS_rest

IS_Next ==
    IS_Pre \/ IS_Return \/ IS_Begin \/ IS_Push \/ IS_Slide \/ IS_End \/ IS_Post

SpecImpSteps == IS_Init /\ [][IS_Next]_vars

\* ---- the visitors that append, each invocation on a range of its own ----
\* column1 (and column2 for the rewards) is the range the last operator()
\* was handed; pos counts the elements handed since the last pre().

AppVals == {FromInt(-1), <<1, 2>>, FromInt(2)}

AppProbs == {<<1, 2>>, <<1, 3>>}

AppRewards == {One, FromInt(2)}

AppPoints == {Zero, One}

App_Init ==
    /\ vis \in {"sigm", "rect_ranges", "pll", "ap_ranges"}
    /\ op = "new"
    /\ pos = 0
    /\ column1 = <<>> /\ column2 = <<>>
    /\ sigm \in IF vis = "sigm" THEN {Sigm_new(st) : st \in sigmoid_type}
                ELSE {Fresh.sigm}
    /\ rect \in IF vis = "rect_ranges"
                THEN {Rect_new(r_type, <<1, 2>>) : r_type \in rectify_type}
                ELSE {Fresh.rect}
    /\ pll = Fresh.pll
    /\ ap \in IF vis = "ap_ranges"
              THEN {AP_new(num_of_iter, damping_factor) :
                       num_of_iter \in 0..ApMaxIter, damping_factor \in ApFactors}
              ELSE {Fresh.ap}
    /\ slr = Fresh.slr /\ km = Fresh.km /\ fft = Fresh.fft /\ ifft = Fresh.ifft
    /\ ent = Fresh.ent /\ loss = Fresh.loss /\ imp = Fresh.imp
    /\ exec = Idle

App_rest == UNCHANGED <<vis, slr, km, fft, ifft, ent, loss, imp, exec>>

Sigm_Pre ==
    /\ vis = "sigm"
    /\ sigm' = Sigm_pre(sigm)
    /\ pos' = 0
    /\ op' = "pre"
    /\ UNCHANGED <<column1, column2, rect, pll, ap>>
    /\ App_rest

Sigm_Invoke ==
    /\ vis = "sigm"
    /\ \E col \in SeqsOf(AppVals, 0, AppMaxLen) :
          /\ pos + Len(col) <= AppMaxTotal
          /\ sigm' = Sigm_call(sigm, col).self
          /\ column1' = Sigm_call(sigm, col).column
          /\ pos' = pos + Len(col)
    /\ op' = "call"
    /\ UNCHANGED <<column2, rect, pll, ap>>
    /\ App_rest

Sigm_Post ==
    /\ vis = "sigm" /\ op = "call"
    /\ op' = "post"
    /\ UNCHANGED <<column1, column2, pos, sigm, rect, pll, ap>>
    /\ App_rest

Rect_RPre ==
    /\ vis = "rect_ranges"
    /\ rect' = Rect_pre(rect)
    /\ pos' = 0
    /\ op' = "pre"
    /\ UNCHANGED <<column1, column2, sigm, pll, ap>>
    /\ App_rest

Rect_RInvoke ==
    /\ vis = "rect_ranges"
    /\ \E col \in SeqsOf(AppVals, 0, AppMaxLen) :
          /\ pos + Len(col) <= AppMaxTotal
          /\ rect' = Rect_call(rect, col).self
          /\ column1' = Rect_call(rect, col).column
          /\ pos' = pos + Len(col)
    /\ op' = "call"
    /\ UNCHANGED <<column2, sigm, pll, ap>>
    /\ App_rest

Rect_RPost ==
    /\ vis = "rect_ranges" /\ op = "call"
    /\ op' = "post"
    /\ UNCHANGED <<column1, column2, pos, sigm, rect, pll, ap>>
    /\ App_rest

PLL_Pre ==
    /\ vis = "pll"
    /\ pll' = PLL_pre(pll)
    /\ pos' = 0
    /\ op' = "pre"
    /\ UNCHANGED <<column1, column2, sigm, rect, ap>>
    /\ App_rest

\* The two ranges have one length: assert((col_s == size_type(
\* std::distance(reward_begin, reward_end))));
PLL_Invoke ==
    /\ vis = "pll"
    /\ \E n \in 0..AppMaxLen :
          \E action_prob \in [1..n -> AppProbs], reward \in [1..n -> AppRewards] :
             /\ pos + n <= AppMaxTotal
             /\ pll' = PLL_call(pll, action_prob, reward).self
             /\ column1' = PLL_call(pll, action_prob, reward).action_prob
             /\ column2' = PLL_call(pll, action_prob, reward).reward
             /\ pos' = pos + n
    /\ op' = "call"
    /\ UNCHANGED <<sigm, rect, ap>>
    /\ App_rest

PLL_Post ==
    /\ vis = "pll" /\ op = "call"
    /\ op' = "post"
    /\ UNCHANGED <<column1, column2, pos, sigm, rect, pll, ap>>
    /\ App_rest

AP_RPre ==
    /\ vis = "ap_ranges"
    /\ ap' = AP_pre(ap)
    /\ pos' = 0
    /\ op' = "pre"
    /\ UNCHANGED <<column1, column2, sigm, rect, pll>>
    /\ App_rest

AP_RInvoke ==
    /\ vis = "ap_ranges"
    /\ \E col \in SeqsOf(AppPoints, 2, ApMaxLen) :
          /\ pos + Len(col) <= ApMaxTotal
          /\ LET ret == AP_call(ap, col)
             IN  ap' = ret.self /\ column1' = ret.column
          /\ pos' = pos + Len(col)
    /\ op' = "call"
    /\ UNCHANGED <<column2, sigm, rect, pll>>
    /\ App_rest

AP_RPost ==
    /\ vis = "ap_ranges" /\ op = "call"
    /\ op' = "post"
    /\ UNCHANGED <<column1, column2, pos, sigm, rect, pll, ap>>
    /\ App_rest

App_Next ==
    \/ Sigm_Pre \/ Sigm_Invoke \/ Sigm_Post
    \/ Rect_RPre \/ Rect_RInvoke \/ Rect_RPost
    \/ PLL_Pre \/ PLL_Invoke \/ PLL_Post
    \/ AP_RPre \/ AP_RInvoke \/ AP_RPost

SpecAppend == App_Init /\ [][App_Next]_vars

\* ---- every visitor ----

Init ==
    \/ SLR_Init \/ KM_Init \/ FFTC_Init \/ Ent_Init \/ Rect_Init \/ Loss_Init
    \/ AP_Init \/ Imp_Init

Next ==
    \/ SLR_Next \/ KM_Next \/ FFTC_Next \/ Ent_Next \/ Rect_Next \/ Loss_Next
    \/ AP_Next \/ Imp_Next

Spec == Init /\ [][Next]_vars

-----------------------------------------------------------------------------
(* The properties.                                                         *)

\* The column seen as cplx_t values, whichever the element type.
AsComplex(col) ==
    [i \in 1..Len(col) |-> IF fft.T = "complex" THEN col[i] ELSE CFromRat(col[i])]

\* C1: FFT round trip.  For a real or complex column x of length n >= 1,
\* the inverse visitor applied to the forward visitor's result of x returns
\* x element for element, for the power-of-two lengths (radix-2) and the
\* others (Bluestein) alike.
C1_RoundTrip ==
    (/\ op = "inv_call"
     /\ Len(column1) >= 1
     /\ fft.result_ = transform_(AsComplex(column1), FALSE))
    => ifft.result_ = AsComplex(column1)

\* A Bluestein round trip that was carried out.
C1_Witness ==
    /\ op = "inv_call"
    /\ Len(column1) = 3
    /\ fft.result_ = transform_(AsComplex(column1), FALSE)
    /\ ifft.result_ = AsComplex(column1)
    /\ fft.result_ # AsComplex(column1)

\* C2: the forward visitor applied to the length-4 column [1,0,0,0] leaves
\* the result [1,1,1,1]: four elements 1+0i in natural order.
C2_Impulse ==
    (op = "call" /\ fft.T = "real" /\ column1 = <<One, Zero, Zero, Zero>>)
    => fft.result_ = <<Cplx(1, 0), Cplx(1, 0), Cplx(1, 0), Cplx(1, 0)>>

C2_Witness ==
    /\ op = "call"
    /\ column1 = <<One, Zero, Zero, Zero>>
    /\ Len(fft.result_) = 4
    /\ \A i \in 1..4 : fft.result_[i] = Cplx(1, 0)

\* The range holds no NaN.
NoNaN(col) == \A i \in 1..Len(col) : ~is_nan__(col[i])

\* C3: on a noise-free series y = a * x + b without NaN and with at least two
\* distinct x, once every pair has been fed exactly once since the last
\* pre(), get_slope() = a, get_intercept() = b and get_corr() = 1 for a > 0,
\* -1 for a < 0.
C3_Line ==
    \A a \in SlrSlopes, b \in SlrIntercepts :
        (/\ op = "call"
         /\ pos = Len(column1)
         /\ NoNaN(column1)
         /\ column2 = Line(column1, a, b)
         /\ \E i, j \in 1..Len(column1) : column1[i] # column1[j])
        => /\ SLR_get_slope(slr) = FromInt(a)
           /\ SLR_get_intercept(slr) = FromInt(b)
           /\ a > 0 => SLR_get_corr(slr) = SurdOne
           /\ a < 0 => SLR_get_corr(slr) = SurdMinusOne

\* x = [1,2,3,4], y = [2,4,6,8]: slope 2, intercept 0, correlation 1.
C3_Witness ==
    /\ op = "call"
    /\ pos = 4
    /\ column1 = SlrScenarioX
    /\ column2 = Line(SlrScenarioX, 2, 0)
    /\ SLR_get_slope(slr) = FromInt(2)
    /\ SLR_get_intercept(slr) = Zero
    /\ SLR_get_corr(slr) = SurdOne

\* The non-NaN values of the range, and their arithmetic mean.
NonNaN(col) == SelectSeq(col, LAMBDA x : ~is_nan__(x))

Mean(col) == RDiv(Reduce(col, Zero), FromInt(Len(col)))

\* C4 as stated: with K = 1 and iter_num >= 1, after an invocation on a
\* non-empty column the centroid equals the arithmetic mean of the non-NaN
\* values, whatever the seed drawn.
C4_CentroidIsMean ==
    (/\ op = "call" /\ km.K = 1 /\ km.iter_num_ >= 1
     /\ NonNaN(column1) # <<>>)
    => KM_get_result(km)[1] = Mean(NonNaN(column1))

\* C4 as amended: the centroid is within the convergence threshold of the
\* mean: the squared distance between them is at most 0.0000001.
C4_CentroidNearMean ==
    (/\ op = "call" /\ km.K = 1 /\ km.iter_num_ >= 1
     /\ NonNaN(column1) # <<>>)
    => ~RLess(KM_epsilon, KM_dfunc(Mean(NonNaN(column1)), KM_get_result(km)[1]))

\* The centroid moved from the seed onto a mean that is no element.
C4_Witness ==
    /\ op = "call" /\ km.K = 1 /\ km.iter_num_ >= 1
    /\ column1 = <<Zero, One>>
    /\ KM_get_result(km)[1] = <<1, 2>>

\* max(0, x) for an ordered x.
Max0(x) == IF RLess(x, Zero) THEN Zero ELSE x

\* C5: in ReLU mode, after pre() (or construction) and one invocation on a
\* column of n values the result has exactly n entries, and entry i is
\* max(0, column[i]), in input order.
C5_ReLU ==
    (op = "call" /\ pos = 1 /\ rect.rtype_ = "ReLU")
    => /\ Len(rect.result_) = Len(column1)
       /\ \A i \in 1..Len(column1) :
             ~is_nan__(column1[i]) => rect.result_[i] = Max0(column1[i])

C5_Witness ==
    /\ op = "call" /\ pos = 1 /\ rect.rtype_ = "ReLU"
    /\ column1 = <<FromInt(-1), One, Zero>>
    /\ rect.result_ = <<Zero, One, Zero>>

\* C6 as stated: in mean_sqr_error mode, for two non-empty ranges of one
\* length with actual[i] == model[i] for every i, get_result() is exactly 0
\* after the invocation.
C6_EqualGivesZero ==
    (/\ op = "call" /\ loss.lft_ = "mean_sqr_error"
     /\ Len(column1) >= 1
     /\ \A i \in 1..Len(column1) : REq(column1[i], column2[i]))
    => Loss_get_result(loss) = Zero

\* C6 as amended: the same for finite values.
C6_FiniteEqualGivesZero ==
    (/\ op = "call" /\ loss.lft_ = "mean_sqr_error"
     /\ Len(column1) >= 1
     /\ \A i \in 1..Len(column1) :
           IsFinite(column1[i]) /\ REq(column1[i], column2[i]))
    => Loss_get_result(loss) = Zero

C6_Witness ==
    /\ op = "call" /\ loss.lft_ = "mean_sqr_error"
    /\ column1 = <<One, FromInt(-1)>>
    /\ column2 = column1
    /\ Loss_get_result(loss) = Zero

\* The positions from..to of the range hold one finite positive value.
Identical(col, from, to) ==
    /\ IsFinite(col[from]) /\ col[from][1] > 0
    /\ \A j \in from..to : col[j] = col[from]

\* log(w) / log(log_base_)
LogOf(w) == [p \in Primes |-> FromInt(PrimeExp(w, p))]

\* C7 as stated: with window size w, at a position whose window of w
\* values is full and holds one positive value throughout, the entropy
\* reported is zero.
C7_IdenticalGivesZero ==
    (op = "call" /\ ent.roll_count_ >= 1)
    => \A i \in ent.roll_count_..Len(column1) :
          (/\ Identical(column1, i - ent.roll_count_ + 1, i)
           /\ ~LogIsNaN(ent.result_[i]))
          => ent.result_[i] = LogZero

\* C7 as amended: at a position i >= 2w - 1 (counted from 1), when the
\* 2w - 1 values up to i (the window and the w - 1 values before it, which
\* the window's sums reach) are one positive value, the entropy reported is
\* log(w) / log(log_base_): zero for w = 1 only.
C7_IdenticalGivesLogW ==
    (op = "call" /\ ent.roll_count_ >= 1)
    => \A i \in (2 * ent.roll_count_ - 1)..Len(column1) :
          Identical(column1, i - 2 * ent.roll_count_ + 2, i)
          => ent.result_[i] = LogOf(ent.roll_count_)

C7_Witness ==
    /\ op = "call" /\ ent.roll_count_ = 3
    /\ Len(column1) = 5
    /\ Identical(column1, 1, 5)
    /\ ent.result_[5] = LogOf(3)
    /\ ent.result_[5] # LogZero

FreshOf(which) ==
    IF which = "slr" THEN SLR_new(slr.skip_nan_)
    ELSE IF which = "km" THEN KM_new(km.K, km.iter_num_, km.cc_)
    ELSE IF which = "fft" THEN FFT_new(fft.T, fft.inverse_)
    ELSE IF which = "ifft" THEN FFT_new(ifft.T, ifft.inverse_)
    ELSE IF which = "ent" THEN Ent_new(ent.roll_count_, ent.log_base_)
    ELSE IF which = "rect" THEN Rect_new(rect.rtype_, rect.param_)
    ELSE IF which = "ap" THEN AP_new(ap.iter_num_, ap.dfactor_)
    ELSE IF which = "imp" THEN Imp_new(imp.roll_count_, imp.imt_)
    ELSE Loss_new(loss.lft_)

VisitorOf(which) ==
    IF which = "slr" THEN slr
    ELSE IF which = "km" THEN km
    ELSE IF which = "fft" THEN fft
    ELSE IF which = "ifft" THEN ifft
    ELSE IF which = "ent" THEN ent
    ELSE IF which = "rect" THEN rect
    ELSE IF which = "ap" THEN ap
    ELSE IF which = "imp" THEN imp
    ELSE loss

\* C9: for every visitor, immediately after pre() the result and every
\* accumulator field equal those of a freshly constructed instance.
C9_PreResets ==
    /\ op = "pre" => VisitorOf(vis) = FreshOf(vis)
    /\ op = "inv_pre" => VisitorOf("ifft") = FreshOf("ifft")

\* The magnitudes and angles of a result, one per element.
Magnitudes(result) == [i \in 1..Len(result) |-> Magnitude(result[i])]

Angles(result) == [i \in 1..Len(result) |-> Arg(result[i])]

\* What C10 says of one visitor over a step: v before, w after, pre_ran,
\* call_ran, magnitude_asked and angle_asked tell the member function run.
Cached(v, w, pre_ran, call_ran, magnitude_asked, angle_asked) ==
    /\ pre_ran => w.magnitude_ = <<>> /\ w.angle_ = <<>>
    /\ call_ran => w.magnitude_ = v.magnitude_ /\ w.angle_ = v.angle_
    /\ (magnitude_asked /\ v.magnitude_ = <<>>)
           => w.magnitude_ = Magnitudes(v.result_)
    /\ (angle_asked /\ v.angle_ = <<>>) => w.angle_ = Angles(v.result_)
    /\ (~pre_ran /\ v.magnitude_ # <<>>) => w.magnitude_ = v.magnitude_
    /\ (~pre_ran /\ v.angle_ # <<>>) => w.angle_ = v.angle_

\* C10: magnitude and angle are derived lazily and cached until the next
\* pre(): an invocation computes neither; the first request computes one
\* value per result element; a filled cache is returned as it is by every
\* later request, also after another invocation; pre() empties both.
C10_LazyCache ==
    [][/\ Cached(fft, fft', op' = "pre", op' = "call",
                 op' = "get_magnitude", op' = "get_angle")
       /\ Cached(ifft, ifft', op' = "inv_pre", op' = "inv_call",
                 op' = "inv_get_magnitude", op' = "inv_get_angle")]_vars

\* A request served from the cache although the result changed meanwhile.
C10_Witness ==
    /\ op = "inv_get_magnitude"
    /\ ifft.result_ = <<>>
    /\ ifft.magnitude_ # <<>>

-----------------------------------------------------------------------------
(* KMeansVisitor cluster views.                                            *)

\* The positions of the non-NaN elements of a column.
NonNaNIdx(col) == {j \in 1..Len(col) : ~is_nan__(col[j])}

\* Some centroid is at a distance below DBL_MAX from element j.
KM_reachable(v, col, j) ==
    \E i \in 1..v.K : RLess(KM_dfunc(col[j], v.result_[i]), DblMax)

\* The first centroid at minimal distance from element j.
KM_closest(v, col, j) ==
    CHOOSE i \in 1..v.K :
        /\ RLess(KM_dfunc(col[j], v.result_[i]), DblMax)
        /\ \A h \in 1..v.K :
              ~RLess(KM_dfunc(col[j], v.result_[h]), KM_dfunc(col[j], v.result_[i]))
        /\ \A h \in 1..(i - 1) :
              RLess(KM_dfunc(col[j], v.result_[i]), KM_dfunc(col[j], v.result_[h]))

\* The <<view, position>> pairs of the views of v that hold entry e.
KM_holders(v, e) ==
    {ik \in (1..v.K) \X (1..(Len(column1) + 1)) :
        ik[2] <= Len(v.clusters_[ik[1]]) /\ v.clusters_[ik[1]][ik[2]] = e}

RECURSIVE KM_sizes(_, _)
KM_sizes(v, i) == IF i = 0 THEN 0 ELSE Len(v.clusters_[i]) + KM_sizes(v, i - 1)

-----------------------------------------------------------------------------
(* Invoking twice without pre().                                           *)

\* PASS_DATA_ONE_BY_ONE_2: the range operator() of SLRegressionVisitor
\* passes the pairs (xs[i], ys[i]) to operator() (idx, x, y) in order.
RECURSIVE SLR_range_call(_, _, _)
SLR_range_call(v, xs, ys) ==
    IF xs = <<>> \/ ys = <<>> THEN v
    ELSE SLR_range_call(SLR_call(v, Head(xs), Head(ys)), Tail(xs), Tail(ys))

\* C12 as stated: after a second invocation with no pre() in between, the
\* state of an SLRegressionVisitor and the result of an EntropyVisitor
\* differ from what pre() followed by the second invocation alone produces.
C12_SecondInvocationDiffers ==
    /\ (/\ vis = "slr" /\ op = "call"
        /\ Len(column1) > 0 /\ pos = 2 * Len(column1))
       => slr # SLR_range_call(SLR_pre(slr), column1, column2)
    /\ (vis = "ent" /\ op = "call" /\ pos = 2)
       => ent # Ent_call(Ent_pre(ent), column1).self

\* C12 as amended: after a second invocation with no pre() in between, an
\* SLRegressionVisitor is in the state of one invocation on the two inputs
\* one after the other, which differs from that of pre() and the second
\* invocation alone whenever the first invocation consumed a pair it did not
\* skip; an EntropyVisitor holds exactly the result of pre() and the second
\* invocation alone.
C12_RegressionAccumulatesEntropyReplaces ==
    /\ (/\ vis = "slr" /\ op = "call"
        /\ Len(column1) > 0 /\ pos = 2 * Len(column1))
       => /\ slr = SLR_range_call(SLR_pre(slr), column1 \o column1,
                                  column2 \o column2)
          /\ SLR_get_count(slr) =
                2 * SLR_get_count(SLR_range_call(SLR_pre(slr), column1, column2))
          /\ SLR_get_count(SLR_range_call(SLR_pre(slr), column1, column2)) > 0
             => slr # SLR_range_call(SLR_pre(slr), column1, column2)
    /\ (vis = "ent" /\ op = "call" /\ pos = 2)
       => ent = Ent_call(Ent_pre(ent), column1).self

\* A regression that counted its three pairs twice.
C12_Witness ==
    /\ vis = "slr" /\ op = "call"
    /\ Len(column1) = 3 /\ pos = 6
    /\ SLR_get_count(slr) = 6

\* An entropy result of three positions after its second invocation in a row.
C12_WitnessEntropy ==
    /\ vis = "ent" /\ op = "call" /\ pos = 2
    /\ ent.roll_count_ = 1
    /\ Len(ent.result_) = 3

-----------------------------------------------------------------------------
(* The path of FastFourierTransVisitor.                                    *)

\* n is one of 1, 2, 4, 8, ...
RECURSIVE IsPowerOfTwo(_)
IsPowerOfTwo(n) == n = 1 \/ (n > 1 /\ n % 2 = 0 /\ IsPowerOfTwo(n \div 2))

RECURSIVE TwoTo(_)
TwoTo(k) == IF k = 0 THEN 1 ELSE 2 * TwoTo(k - 1)

FS_started == vis \in {"fft_steps", "ifft_steps"} /\ exec.pc \in {"running", "done"}

\* The algorithm entries made by transform_ or itransform_.
FS_selections ==
    SelectSeq(exec.calls, LAMBDA c : c.by \in {"transform_", "itransform_"})

\* C13: whenever transform_ or itransform_ hands on a vector of n >= 1
\* elements it enters fft_radix2_ if n is a power of two and fft_bluestein_
\* if not; once operator() has returned from a column of n >= 1 elements
\* exactly one algorithm was entered for the column itself; on the empty
\* column no step reads, writes or indexes anything and the result is the
\* empty sequence, forward and inverse.
C13_AlgorithmSelection ==
    FS_started =>
       /\ \A x \in 1..Len(FS_selections) :
             FS_selections[x].col_s >= 1
             => FS_selections[x].fn =
                   IF IsPowerOfTwo(FS_selections[x].col_s) THEN "fft_radix2_"
                   ELSE "fft_bluestein_"
       /\ (exec.pc = "done" /\ Len(column1) >= 1)
          => /\ Len(SelectSeq(FS_selections, LAMBDA c : Len(c.inside) = 1)) = 1
             /\ FS_selections[1].col_s = Len(column1)
       /\ Len(column1) = 0
          => /\ exec.nacc = 0 /\ exec.acc = {}
             /\ exec.pc = "done"
                => (IF vis = "fft_steps" THEN fft ELSE ifft).result_ = <<>>

\* The inverse visitor is through with a column of six elements, by
\* Bluestein.
C13_Witness ==
    /\ vis = "ifft_steps" /\ exec.pc = "done"
    /\ Len(column1) = 6
    /\ FS_selections[1].fn = "fft_bluestein_"
    /\ Len(FS_selections) = 4

\* C14: once fft_bluestein_ has computed m for a column of n >= 1 elements,
\* m is a power of two, m >= 2n + 1 and no smaller power of two is; both
\* operands of convolve_ have m elements; every transform_ inside convolve_
\* enters fft_radix2_ and fft_bluestein_ is never entered from inside
\* fft_bluestein_; every index into xvec or yvec is within [0, m).
C14_BluesteinPadding ==
    FS_started =>
       /\ \A y \in 1..Len(exec.stack) :
             LET f == exec.stack[y]
             IN  /\ (f.fn = "fft_bluestein_" /\ f.pc # "enter" /\ f.col_s >= 1)
                    => /\ IsPowerOfTwo(f.m)
                       /\ f.m >= 2 * f.col_s + 1
                       /\ f.m \div 2 < 2 * f.col_s + 1
                 /\ f.fn = "convolve_"
                    => /\ f.col_s = exec.stack[y - 1].m
                       /\ f.m = exec.stack[y - 1].m
                       /\ IsPowerOfTwo(f.col_s)
       /\ \A x \in 1..Len(exec.calls) :
             LET c == exec.calls[x]
                 inside == {c.inside[y] : y \in 1..Len(c.inside)}
             IN  /\ (c.by = "transform_" /\ "convolve_" \in inside)
                    => c.fn = "fft_radix2_"
                 /\ c.fn = "fft_bluestein_" => "fft_bluestein_" \notin inside
       /\ \A a \in exec.acc :
             a[1] \in {"xvec", "yvec"}
             => 0 <= a[2] /\ a[2] < a[3] /\ IsPowerOfTwo(a[3])

\* fft_bluestein_ on seven elements has just stored yvec[6] and
\* yvec[16 - 6].
C14_Witness ==
    /\ FS_started /\ exec.pc = "running"
    /\ exec.step = <<"fft_bluestein_", "yvec">>
    /\ Top.col_s = 7 /\ Top.m = 16
    /\ <<"yvec", 10, 16>> \in exec.acc

\* C15: in fft_radix2_ on n = 2^L elements, levels is L; reverse_bits_(.,
\* levels) maps [0, n) into itself and is its own inverse; after the
\* permutation loop every pair {i, reverse_bits_(i, levels)} of two indices
\* was swapped exactly once, nothing else was, and position i holds the
\* original element reverse_bits_(i, levels); every butterfly step indexes
\* column below n and exp_table below n / 2.
C15_BitReversal ==
    FS_started =>
       /\ \A y \in 1..Len(exec.stack) :
             LET f == exec.stack[y]
                 n == f.col_s
             IN  (f.fn = "fft_radix2_" /\ f.pc # "enter" /\ IsPowerOfTwo(n))
                 => /\ TwoTo(f.levels) = n
                    /\ \A i \in 0..(n - 1) :
                          /\ reverse_bits_(i, f.levels) \in 0..(n - 1)
                          /\ reverse_bits_(reverse_bits_(i, f.levels), f.levels) = i
                    /\ f.pc \in {"butterfly", "ret"}
                       => /\ \A i \in 0..(n - 1) :
                                /\ f.column[i + 1] = reverse_bits_(i, f.levels)
                                /\ reverse_bits_(i, f.levels) # i
                                   => Cardinality(
                                         {x \in 1..Len(f.swaps) :
                                             f.swaps[x] \in
                                               {<<i, reverse_bits_(i, f.levels)>>,
                                                <<reverse_bits_(i, f.levels), i>>}}) = 1
                          /\ \A x \in 1..Len(f.swaps) :
                                /\ f.swaps[x][1] # f.swaps[x][2]
                                /\ f.swaps[x][2] = reverse_bits_(f.swaps[x][1], f.levels)
       /\ (exec.pc = "running" /\ exec.step = <<"fft_radix2_", "butterfly">>
           /\ IsPowerOfTwo(Top.col_s))
          => \A a \in exec.acc :
                /\ a[1] = "column" => 0 <= a[2] /\ a[2] < Top.col_s
                /\ a[1] = "exp_table" => 0 <= a[2] /\ a[2] < Top.col_s \div 2

\* fft_radix2_ on eight elements, past the two swaps of its permutation and
\* in its last butterfly stage.
C15_Witness ==
    /\ FS_started /\ exec.pc = "running"
    /\ exec.step = <<"fft_radix2_", "butterfly">>
    /\ Top.fn = "fft_radix2_" /\ Top.col_s = 8 /\ Top.levels = 3 /\ Top.s = 8
    /\ Top.swaps = << <<1, 4>>, <<3, 6>> >>
    /\ <<"exp_table", 3, 4>> \in exec.acc

-----------------------------------------------------------------------------
(* The loop of calc_k_means_.                                              *)

\* The means calc_k_means_ recomputes in a pass it starts with `means`.
KS_recomputed(means) ==
    [c \in 1..Len(means) |->
        KM_new_mean(column1, KM_assign(means, column1), c)]

\* A step is a pass of the loop.
KS_pass == vis = "km_steps" /\ exec.pc = "loop" /\ exec'.pc = "loop"

\* C16: the loop of calc_k_means_ never starts a pass beyond iter_num_; a
\* pass overwrites exactly the centroids whose recomputed mean is farther
\* than 0.0000001 from them, with that mean; a pass in which no recomputed
\* mean is that far changes no centroid and is the last one, and a pass in
\* which one is, below the cap, is followed by another; calc_k_means_ always
\* comes to its end.
C16_BoundedIteration ==
    /\ [](exec.pc = "loop" => exec.iter <= km.iter_num_)
    /\ [][KS_pass =>
            /\ exec.iter < km.iter_num_ /\ exec'.iter = exec.iter + 1
            /\ ~exec.done
            /\ \A c \in 1..km.K :
                  LET value == KS_recomputed(km.result_)[c]
                      far == RLess(KM_epsilon, KM_dfunc(value, km.result_[c]))
                  IN  km'.result_[c] = IF far THEN value ELSE km.result_[c]
            /\ exec'.done =
                  \A c \in 1..km.K :
                     ~RLess(KM_epsilon,
                            KM_dfunc(KS_recomputed(km.result_)[c], km.result_[c]))
            /\ exec'.done => km'.result_ = km.result_]_vars
    /\ [][(vis = "km_steps" /\ exec.pc = "loop" /\ exec.done)
          => exec'.pc = "idle"]_vars
    /\ (vis = "km_steps" /\ exec.pc = "loop") ~> (exec.pc = "idle")

\* A second pass on two centroids has moved nothing and set done, below a
\* cap of three passes.
C16_Witness ==
    /\ vis = "km_steps" /\ exec.pc = "loop"
    /\ km.K = 2 /\ km.iter_num_ = 3
    /\ exec.iter = 2 /\ exec.done

\* C17: a fresh instance holds zero centroids; the seeding sets a centroid
\* whose draw is a non-NaN element to that element and leaves one whose draw
\* is NaN at the value it had before the invocation; pre() leaves every
\* centroid as it is.
C17_SeedingKeepsOnNaN ==
    /\ op = "new" => \A k \in 1..km.K : km.result_[k] = Zero
    /\ [][/\ (vis = "km_steps" /\ exec.pc = "idle" /\ exec'.pc = "loop")
             => \A k \in 1..km.K :
                   km'.result_[k] =
                      IF is_nan__(column1[exec'.draws[k]]) THEN km.result_[k]
                      ELSE column1[exec'.draws[k]]
          /\ (vis = "km_steps" /\ exec.pc = "idle" /\ exec'.pc = "idle"
                /\ op' = "pre")
             => km'.result_ = km.result_]_vars

\* A reused instance whose draw has just hit a NaN element: the centroid of
\* the invocation before is still there.
C17_Witness ==
    /\ vis = "km_steps" /\ exec.pc = "loop" /\ exec.iter = 0
    /\ op = "pre"
    /\ km.K = 1
    /\ is_nan__(column1[exec.draws[1]])
    /\ km.result_[1] = One

-----------------------------------------------------------------------------
(* The similarities of AffinityPropVisitor.                                *)

\* The negative distance between points i and k (0-based) of the column.
AP_neg_dist(col, i, k) == RNeg(AP_dfunc(col[i + 1], col[k + 1]))

\* The self-preference: the minimum similarity of two distinct points.
AP_preference(col) ==
    LET n == Len(col)
        pairs == {p \in (0..(n - 1)) \X (0..(n - 1)) : p[1] # p[2]}
        offdiag == {AP_neg_dist(col, p[1], p[2]) : p \in pairs}
    IN  CHOOSE m \in offdiag : \A d \in offdiag : ~RLess(d, m)

\* C18: in an invocation of at least one iteration on n points, for every
\* ordered pair (i, k), k < i included, the similarity the responsibility
\* update reads for (i, k) is
\* minus the distance of points i and k when i # k and the self-preference
\* when i = k, and the index it reads at is in [0, n(n+1)/2).
C18_SimilarityLookup ==
    (vis = "ap" /\ op = "call" /\ ap.iter_num_ >= 1) =>
        LET n == Len(column1)
            simil == get_similarity_(column1)
        IN  \A i \in 0..(n - 1), k \in 0..(n - 1) :
               /\ AP_simil_index(i, k, n) \in 0..(((n * (n + 1)) \div 2) - 1)
               /\ AP_simil_read(simil, i, k, n) =
                     IF i # k THEN AP_neg_dist(column1, i, k)
                     ELSE AP_preference(column1)

\* The part of C18 that the packed index does satisfy: every read is inside
\* the array, and a read for k >= i has the value claimed.
C18_UpperTriangle ==
    (vis = "ap" /\ op = "call" /\ ap.iter_num_ >= 1) =>
        LET n == Len(column1)
            simil == get_similarity_(column1)
        IN  \A i \in 0..(n - 1), k \in 0..(n - 1) :
               /\ AP_simil_index(i, k, n) \in 0..(((n * (n + 1)) \div 2) - 1)
               /\ k >= i =>
                     AP_simil_read(simil, i, k, n) =
                        IF i # k THEN AP_neg_dist(column1, i, k)
                        ELSE AP_preference(column1)

-----------------------------------------------------------------------------
(* The pairs SLRegressionVisitor skips.                                    *)

\* The position in the columns of the j-th pair consumed since the last
\* pre() (or since construction).
SLR_consumed(j) == ((j - 1) % Len(column1)) + 1

SLR_nan_pair(i) == is_nan__(column1[i]) \/ is_nan__(column2[i])

\* C19: with skipnan = true, consuming a pair with a NaN x or y leaves the
\* count, s_xy and both running-statistics accumulators as they are; at
\* every point get_count() is the number of pairs without NaN consumed since
\* the last pre(); pre() sets the count and s_xy to 0.
C19_NaNSkipping ==
    /\ [](vis = "slr" /\ slr.skip_nan_
          => SLR_get_count(slr) =
                Cardinality({j \in 1..pos : ~SLR_nan_pair(SLR_consumed(j))}))
    /\ [](vis = "slr" /\ op = "pre"
          => SLR_get_count(slr) = 0 /\ slr.s_xy_ = Zero)
    /\ [][(vis = "slr" /\ slr.skip_nan_ /\ pos' = pos + 1
           /\ SLR_nan_pair(SLR_consumed(pos + 1)))
          => /\ slr'.n_ = slr.n_
             /\ slr'.s_xy_ = slr.s_xy_
             /\ slr'.x_stats_ = slr.x_stats_
             /\ slr'.y_stats_ = slr.y_stats_]_vars

\* A second pass over three pairs, the middle one with a NaN: the NaN pair
\* has just been consumed for the second time and the count is still three.
C19_Witness ==
    /\ vis = "slr" /\ op = "call" /\ slr.skip_nan_
    /\ Len(column1) = 3 /\ pos = 5
    /\ SLR_nan_pair(2)
    /\ SLR_get_count(slr) = 3
    /\ slr.s_xy_ # Zero

-----------------------------------------------------------------------------
(* The windows of ImpurityVisitor.                                         *)

\* The elements of a finite set, one after the other.
RECURSIVE SeqOfSet(_)
SeqOfSet(S) ==
    IF S = {} THEN <<>>
    ELSE LET x == CHOOSE y \in S : TRUE
         IN  <<x>> \o SeqOfSet(S \ {x})

\* The frequency table of the w elements of col from position k (0-based),
\* none of them NaN: one entry for every value, with the number of its
\* positions.
Imp_window_table(col, k, w) ==
    LET window == (k + 1)..(k + w)
        keys == SeqOfSet({col[j] : j \in window})
    IN  [x \in 1..Len(keys) |->
            <<keys[x], Cardinality({j \in window : col[j] = keys[x]})>>]

\* C20: on a column of n elements with 1 <= roll_count_ = w <= n, one
\* invocation leaves exactly n - w + 1 results, the k-th (k = 0 .. n - w)
\* being the impurity of the elements k .. k + w - 1; w = 1 and w = n
\* included.
C20_ResultCount ==
    (/\ vis = "imp" /\ op = "call"
     /\ 1 <= imp.roll_count_ /\ imp.roll_count_ <= Len(column1))
    => LET n == Len(column1)
           w == imp.roll_count_
       IN  /\ Len(imp.result_) = n - w + 1
           /\ \A k \in 0..(n - w) :
                 imp.result_[k + 1] = Imp_value(imp, Imp_window_table(column1, k, w))

\* What the loop from i = 1 while i < n does leave: the first n - w + 1
\* windows for w >= 2, and the first n - 1 of the n windows for w = 1.
C20_ResultCountFromLoop ==
    (/\ vis = "imp" /\ op = "call"
     /\ 1 <= imp.roll_count_ /\ imp.roll_count_ <= Len(column1))
    => LET n == Len(column1)
           w == imp.roll_count_
           count == IF w = 1 THEN n - 1 ELSE n - w + 1
       IN  /\ Len(imp.result_) = count
           /\ \A k \in 0..(count - 1) :
                 imp.result_[k + 1] = Imp_value(imp, Imp_window_table(column1, k, w))

-----------------------------------------------------------------------------
(* The frequency table of ImpurityVisitor.                                 *)

\* The window whose value pass i pushes: the positions i .. i + w - 1.
IS_window == exec.i..(exec.i + imp.roll_count_ - 1)

RECURSIVE IS_count_sum(_, _)
IS_count_sum(table, x) ==
    IF x > Len(table) THEN 0 ELSE table[x][2] + IS_count_sum(table, x + 1)

\* exec.table holds the distinct values of the window with their counts:
\* every position of the window has one entry, whose count is the number
\* of positions of the window that hold a value equal to it, and no two
\* entries have equal keys.
IS_table_is_histogram ==
    /\ \A j \in IS_window :
          \E x \in 1..Len(exec.table) :
             /\ exec.table[x][1] = column1[j]
             /\ exec.table[x][2] =
                   Cardinality({jj \in IS_window : REq(column1[jj], column1[j])})
    /\ \A x \in 1..Len(exec.table) :
          \E j \in IS_window : exec.table[x][1] = column1[j]
    /\ \A x, y \in 1..Len(exec.table) :
          x # y => ~REq(exec.table[x][1], exec.table[y][1])

\* A value has just been computed from exec.table.
IS_computed == vis = "imp_steps" /\ exec.pc \in {"slide", "break"}

\* C21: every time a result value is computed the table holds exactly the
\* distinct values of the window with their counts, every count is >= 1 and
\* the counts sum to w; when the window slides the lookup of the leaving
\* element finds an entry; no entry with a count of 0 stays in the table.
C21_TableInvariant ==
    /\ IS_computed =>
          /\ IS_table_is_histogram
          /\ \A x \in 1..Len(exec.table) : exec.table[x][2] >= 1
          /\ IS_count_sum(exec.table, 1) = imp.roll_count_
    /\ (vis = "imp_steps" /\ exec.pc = "slide") =>
          Imp_find(exec.table, column1[exec.i]) # 0
    /\ (vis = "imp_steps" /\ exec.pc \in {"loop", "slide", "break"}) =>
          \A x \in 1..Len(exec.table) : exec.table[x][2] # 0

\* C21 on the columns in which every element is equal to itself.
C21_TableInvariantWithoutNaN ==
    (\A j \in 1..Len(column1) : ~is_nan__(column1[j])) => C21_TableInvariant

-----------------------------------------------------------------------------
(* get_similarity_ on every column length.                                 *)

GS_inside == vis = "ap_steps" /\ exec.pc \notin {"idle"}

\* C22: on a column of n >= 0 elements get_similarity_ dereferences only
\* the positions 0 .. n - 1 and comes to its end; when it returns it has
\* evaluated n(n-1)/2 distances and its array has n(n+1)/2 entries; for
\* n = 0 and n = 1 no pass of its loops touches the column.
C22_SimilarityConstruction ==
    LET n == Len(column1)
    IN  /\ GS_inside =>
              /\ exec.touched \subseteq 0..(n - 1)
              /\ exec.pc # "crashed"
              /\ exec.evals <= (n * (n - 1)) \div 2
              /\ n <= 1 => exec.touched = {} /\ exec.pc # "inner"
        /\ (vis = "ap_steps" /\ exec.pc = "returned") =>
              /\ exec.evals = (n * (n - 1)) \div 2
              /\ Len(exec.simil) = (n * (n + 1)) \div 2

\* C22 on the columns that are not empty.
C22_SimilarityConstructionNonEmpty ==
    Len(column1) >= 1 => C22_SimilarityConstruction

\* On two and more elements the steps build the array get_similarity_ is
\* taken to return elsewhere in this module.
GS_SameArray ==
    (vis = "ap_steps" /\ exec.pc = "returned" /\ Len(column1) >= 2)
    => exec.simil = get_similarity_(column1)

-----------------------------------------------------------------------------
(* The visitors that append.                                               *)

\* s is the beginning of t.
IsPrefix(s, t) == Len(s) <= Len(t) /\ SubSeq(t, 1, Len(s)) = s

\* What SigmoidVisitor is to push for the element x.
App_sigmoid(st, x) ==
    IF st = "smoothstep"
    THEN IF RLess(Zero, x) /\ RLess(x, One)
         THEN RMul(RMul(x, x), RSub(FromInt(3), RMul(FromInt(2), x)))
         ELSE IF RLess(x, One) THEN Zero ELSE One
    ELSE <<st, <<x>>>>

\* The result of the visitor vis names, and what it is to push for
\* element i of the range it was handed last.
App_result(s) ==
    IF vis = "sigm" THEN s.sigm.result_
    ELSE IF vis = "rect_ranges" THEN s.rect.result_
    ELSE IF vis = "pll" THEN s.pll.result_
    ELSE s.ap.result_

App_state == [sigm |-> sigm, rect |-> rect, pll |-> pll, ap |-> ap]

App_state_next == [sigm |-> sigm', rect |-> rect', pll |-> pll', ap |-> ap']

App_entry(col1, col2, i) ==
    IF vis = "sigm" THEN App_sigmoid(sigm.sigmoid_type_, col1[i])
    ELSE IF vis = "rect_ranges" THEN Rect_elem(rect, col1[i])
    ELSE PLL_term(col1[i], col2[i])

App_elementwise == vis \in {"sigm", "rect_ranges", "pll"}

\* C23: SigmoidVisitor, RectifyVisitor and PolicyLearningLossVisitor hold
\* as many results as elements were handed to them since the last pre();
\* an invocation on a range of n elements leaves the result it found as a
\* prefix and adds n entries behind it, entry i computed from element i of
\* the range alone; so after pre() and one invocation the result has the n
\* entries of that range.  An invocation of AffinityPropVisitor leaves the
\* exemplars it found as a prefix of its list.
C23_AppendOnly ==
    /\ [](App_elementwise => Len(App_result(App_state)) = pos)
    /\ [][(App_elementwise /\ op' = "call")
          => LET before == App_result(App_state)
                 after == App_result(App_state_next)
                 n == Len(column1')
             IN  /\ IsPrefix(before, after)
                 /\ Len(after) = Len(before) + n
                 /\ \A i \in 1..n :
                       after[Len(before) + i] = App_entry(column1', column2', i)]_vars
    /\ [][(vis = "ap_ranges" /\ op' = "call")
          => IsPrefix(ap.result_, ap'.result_)]_vars

\* A third invocation in a row, on two elements after ranges of one and one:
\* four results.
C23_Witness ==
    /\ vis = "sigm" /\ op = "call" /\ sigm.sigmoid_type_ = "smoothstep"
    /\ pos = 4 /\ Len(column1) = 2
    /\ sigm.result_ = <<Zero, One, <<1, 2>>, One>>

\* An exemplar list that has grown by a second invocation.
C23_WitnessExemplars ==
    /\ vis = "ap_ranges" /\ op = "call" /\ pos = 6
    /\ column1 = <<FromInt(0), FromInt(0), FromInt(1)>>
    /\ ap.result_ = <<<<"col", 2>>, <<"col", 2>>>>

====
